---- MODULE Spec2Model ----
(***************************************************************************)
(* Model of the flow-ingestion pipeline of Parse_Agent/ingestion_agent2.py *)
(* (ingestion_agent_run and the analyzers it calls).                       *)
(*                                                                         *)
(* Python values are represented as follows.                               *)
(*   - identifiers, names, states and messages are TLA+ strings; f-strings *)
(*     are string concatenations (\o);                                     *)
(*   - strings the code looks inside (processor types, property names and  *)
(*     values, parameter names) are tuples of one-character strings;       *)
(*   - a dict is a function, dict.get(k, d) is Get(d, k, default);         *)
(*   - a list is a sequence; None is PyNone (CNone among character         *)
(*     strings).                                                           *)
(***************************************************************************)
EXTENDS Integers, Sequences, FiniteSets, TLC

VARIABLES
    input_files,         \* __main__: the files to process, in order
    file_index,          \* __main__: position of the batch loop in input_files
    success_count,       \* __main__: files whose run returned
    failure_count,       \* __main__: files counted as failed
    outputs,             \* the artifacts written: by which input file, where
    pc,                  \* position of __main__ / ingestion_agent_run
    opened,              \* whether the run has opened its input file
    data,                \* parsed_flow: the FlowModel the loader produced
    connection_graph,    \* _validate_logical_semantics: defaultdict(list)
    warnings,            \* _validate_logical_semantics: local list `warnings`
    validation_warnings, \* ingestion_agent_run: result of _validate_all
    security_findings,   \* ingestion_agent_run: result of _security_audit
    performance_analysis, \* ingestion_agent_run: result of _analyze_performance
    expression_inventory, \* ingestion_agent_run: result of _analyze_expressions
    data_contract,       \* ingestion_agent_run: result of _create_data_contract
    checklist,           \* ingestion_agent_run: result of _create_checklist
    error,               \* the exception that aborted the run, or NoError
    raised_in            \* the step that raised it (its traceback), or ""

batch_vars == <<input_files, file_index, success_count, failure_count, outputs>>

analysis_vars ==
    <<security_findings, performance_analysis, expression_inventory,
      data_contract, checklist>>

vars ==
    <<input_files, file_index, success_count, failure_count, outputs, pc,
      opened, data, connection_graph, warnings, validation_warnings,
      security_findings, performance_analysis, expression_inventory,
      data_contract, checklist, error, raised_in>>

----------------------------------------------------------------------------
(* Python values *)

PyNone == "<None>"

CNone == << "<None>" >>

Truthy(s) == s # PyNone /\ s # ""

Str(s) == IF s = PyNone THEN "None" ELSE s

Get(d, k, default) == IF k \in DOMAIN d THEN d[k] ELSE default

EmptyDict == << >>

IsList(v) == DOMAIN v = 1..Len(v)

Range(s) == {s[i] : i \in DOMAIN s}

SeqsUpTo(S, n) == UNION {[1..k -> S] : k \in 0..n}

\* the concatenation of a list of lists
RECURSIVE Flatten(_)
Flatten(seqs) == IF Len(seqs) = 0 THEN << >> ELSE Head(seqs) \o Flatten(Tail(seqs))

\* s.startswith(p) on character strings
StartsWith(s, p) == Len(p) <= Len(s) /\ SubSeq(s, 1, Len(p)) = p

\* `p in s` on character strings
Contains(s, p) ==
    \E i \in 0..(Len(s) - Len(p)) : SubSeq(s, i + 1, i + Len(p)) = p

\* list.index(x): position of the first occurrence
IndexOf(s, x) == CHOOSE i \in DOMAIN s : s[i] = x /\ \A j \in 1..(i - 1) : s[j] # x

----------------------------------------------------------------------------
(* Exceptions *)

NoError == [kind |-> "none"]

FlowValidationError(message, component_id, component_name) ==
    [kind |-> "FlowValidationError", message |-> message,
     component_id |-> component_id, component_name |-> component_name]

----------------------------------------------------------------------------
(* defaultdict(list) with Python's insertion-ordered keys *)

EmptyGraph == [keys |-> << >>, adj |-> EmptyDict]

GraphAppend(g, s, d) ==
    IF s \in DOMAIN g.adj
    THEN [g EXCEPT !.adj[s] = Append(@, d)]
    ELSE [keys |-> Append(g.keys, s), adj |-> g.adj @@ (s :> <<d>>)]

----------------------------------------------------------------------------
(* Catalogs *)

NIFI_SYSTEM_FUNCTIONS == <<
    <<"a","l","l","A","t","t","r","i","b","u","t","e","s">>,
    <<"a","n","y","A","t","t","r","i","b","u","t","e">>,
    <<"a","l","l","M","a","t","c","h","i","n","g","A","t","t","r","i","b","u","t","e","s">>,
    <<"a","n","y","M","a","t","c","h","i","n","g","A","t","t","r","i","b","u","t","e">>,
    <<"a","l","l","D","e","l","i","n","e","a","t","e","d","V","a","l","u","e","s">>,
    <<"a","n","y","D","e","l","i","n","e","a","t","e","d","V","a","l","u","e">>,
    <<"a","p","p","e","n","d">>,
    <<"p","r","e","p","e","n","d">>,
    <<"s","u","b","s","t","r","i","n","g">>,
    <<"s","u","b","s","t","r","i","n","g","B","e","f","o","r","e">>,
    <<"s","u","b","s","t","r","i","n","g","A","f","t","e","r">>,
    <<"s","u","b","s","t","r","i","n","g","B","e","f","o","r","e","L","a","s","t">>,
    <<"s","u","b","s","t","r","i","n","g","A","f","t","e","r","L","a","s","t">>,
    <<"r","e","p","l","a","c","e">>,
    <<"r","e","p","l","a","c","e","F","i","r","s","t">>,
    <<"r","e","p","l","a","c","e","A","l","l">>,
    <<"r","e","p","l","a","c","e","N","u","l","l">>,
    <<"r","e","p","l","a","c","e","E","m","p","t","y">>,
    <<"t","r","i","m">>,
    <<"t","o","L","o","w","e","r">>,
    <<"t","o","U","p","p","e","r">>,
    <<"p","a","d","L","e","f","t">>,
    <<"p","a","d","R","i","g","h","t">>,
    <<"r","e","p","e","a","t">>,
    <<"s","t","a","r","t","s","W","i","t","h">>,
    <<"e","n","d","s","W","i","t","h">>,
    <<"c","o","n","t","a","i","n","s">>,
    <<"i","n">>,
    <<"f","i","n","d">>,
    <<"m","a","t","c","h","e","s">>,
    <<"i","n","d","e","x","O","f">>,
    <<"l","a","s","t","I","n","d","e","x","O","f">>,
    <<"e","s","c","a","p","e","J","s","o","n">>,
    <<"u","n","e","s","c","a","p","e","J","s","o","n">>,
    <<"e","s","c","a","p","e","X","m","l">>,
    <<"u","n","e","s","c","a","p","e","X","m","l">>,
    <<"e","s","c","a","p","e","H","t","m","l","3">>,
    <<"e","s","c","a","p","e","H","t","m","l","4">>,
    <<"e","s","c","a","p","e","C","s","v">>,
    <<"u","n","e","s","c","a","p","e","C","s","v">>,
    <<"u","r","l","E","n","c","o","d","e">>,
    <<"u","r","l","D","e","c","o","d","e">>,
    <<"b","a","s","e","6","4","E","n","c","o","d","e">>,
    <<"b","a","s","e","6","4","D","e","c","o","d","e">>,
    <<"p","l","u","s">>,
    <<"m","i","n","u","s">>,
    <<"m","u","l","t","i","p","l","y">>,
    <<"d","i","v","i","d","e">>,
    <<"m","o","d">>,
    <<"t","o","R","a","d","i","x">>,
    <<"f","r","o","m","R","a","d","i","x">>,
    <<"r","a","n","d","o","m">>,
    <<"m","a","t","h">>,
    <<"n","o","w">>,
    <<"f","o","r","m","a","t">>,
    <<"t","o","D","a","t","e">>,
    <<"t","o","N","u","m","b","e","r">>,
    <<"i","s","N","u","l","l">>,
    <<"n","o","t","N","u","l","l">>,
    <<"i","s","E","m","p","t","y">>,
    <<"e","q","u","a","l","s">>,
    <<"e","q","u","a","l","s","I","g","n","o","r","e","C","a","s","e">>,
    <<"g","t">>,
    <<"g","e">>,
    <<"l","t">>,
    <<"l","e">>,
    <<"a","n","d">>,
    <<"o","r">>,
    <<"n","o","t">>,
    <<"i","f","E","l","s","e">>,
    <<"h","o","s","t","n","a","m","e">>,
    <<"i","p">>,
    <<"u","u","i","d">>,
    <<"U","U","I","D">>,
    <<"n","e","x","t","I","n","t">>,
    <<"l","i","t","e","r","a","l">>,
    <<"g","e","t","S","t","a","t","e","V","a","l","u","e">>,
    <<"t","h","r","e","a","d">>,
    <<"g","e","t","D","e","l","i","m","i","t","e","d","F","i","e","l","d">>,
    <<"j","s","o","n","P","a","t","h">>,
    <<"j","s","o","n","P","a","t","h","D","e","l","e","t","e">>,
    <<"j","s","o","n","P","a","t","h","P","u","t">>,
    <<"j","s","o","n","P","a","t","h","S","e","t">>,
    <<"e","v","a","l","u","a","t","e","E","L","S","t","r","i","n","g">>,
    <<"c","o","u","n","t">>,
    <<"l","e","n","g","t","h">>,
    <<"t","o","S","t","r","i","n","g">>,
    <<"t","o","D","e","c","i","m","a","l">>,
    <<"g","e","t","U","r","i">>,
    <<"u","r","l">>,
    <<"h","a","s","h">>
>>

NIFI_SYSTEM_PROPERTIES == <<
    <<"n","i","f","i",".">>,
    <<"j","a","v","a",".">>,
    <<"e","n","v",".">>,
    <<"h","o","s","t","n","a","m","e",".">>,
    <<"E","n","v","i","r","o","n","m","e","n","t",".">>,
    <<"S","y","s","t","e","m",".">>
>>

\* the script-engine markers of _validate_logical_semantics
SCRIPT_TYPES == <<
    <<"E","x","e","c","u","t","e","S","c","r","i","p","t">>,
    <<"E","x","e","c","u","t","e","G","r","o","o","v","y">>,
    <<"E","x","e","c","u","t","e","P","y","t","h","o","n">>
>>

\* the terminal-sink markers of _validate_logical_semantics
TERMINAL_TYPES == <<
    <<"P","u","t">>,
    <<"P","u","b","l","i","s","h">>,
    <<"P","o","s","t">>,
    <<"S","e","n","d">>
>>

SCRIPT_BODY == <<"S","c","r","i","p","t"," ","B","o","d","y">>

SCRIPT_FILE == <<"S","c","r","i","p","t"," ","F","i","l","e">>

REQUIRED_KEYS == <<"processors", "connections", "controller_services",
                   "process_groups", "parameter_contexts">>

----------------------------------------------------------------------------
(* Tier 1: _validate_schema_and_structure *)

RECURSIVE SchemaLoop(_, _)
SchemaLoop(d, i) ==
    IF i > Len(REQUIRED_KEYS) THEN NoError
    ELSE LET key == REQUIRED_KEYS[i]
         IN  IF key \notin DOMAIN d
             THEN FlowValidationError("Missing required key: " \o key, PyNone, PyNone)
             ELSE IF ~IsList(d[key])
             THEN FlowValidationError("Key '" \o key \o "' must be a list", PyNone, PyNone)
             ELSE SchemaLoop(d, i + 1)

validate_schema_and_structure(d) == SchemaLoop(d, 1)

----------------------------------------------------------------------------
(* Tier 2, connections: _collect_all_valid_ids and the connection loop *)

TruthyIds(comp_list) ==
    {Get(comp, "id", PyNone) : comp \in {c \in Range(comp_list) : Truthy(Get(c, "id", PyNone))}}

GroupIds(pg_list) ==
    UNION {{pg_id, pg_id \o "-input-port", pg_id \o "-output-port"} :
              pg_id \in TruthyIds(pg_list)}

collect_all_valid_ids_NoSyntheticPorts(d) ==
    TruthyIds(d["processors"])
    \cup TruthyIds(d["process_groups"])
    \cup TruthyIds(d["controller_services"])
    \cup TruthyIds(d["input_ports"])
    \cup TruthyIds(d["output_ports"])
    \cup TruthyIds(d["funnels"])
    \cup TruthyIds(d["remote_process_groups"])

collect_all_valid_ids(d) ==
    TruthyIds(d["processors"])
    \cup GroupIds(d["process_groups"])
    \cup TruthyIds(d["controller_services"])
    \cup TruthyIds(d["input_ports"])
    \cup TruthyIds(d["output_ports"])
    \cup TruthyIds(d["funnels"])
    \cup TruthyIds(d["remote_process_groups"])

InvalidEndpoint(endpoint_id, valid_ids) ==
    ~Truthy(endpoint_id) \/ endpoint_id \notin valid_ids

RECURSIVE ConnectionLoop(_, _, _, _)
\* the loop without the endpoint checks: every connection becomes an edge
RECURSIVE ConnectionLoop_NoEndpointCheck(_, _, _, _)
ConnectionLoop_NoEndpointCheck(conns, i, valid_ids, graph) ==
    IF i > Len(conns) THEN [error |-> NoError, graph |-> graph]
    ELSE ConnectionLoop_NoEndpointCheck(
             conns, i + 1, valid_ids,
             GraphAppend(graph, Get(conns[i], "sourceId", PyNone),
                         Get(conns[i], "destinationId", PyNone)))

ConnectionLoop(conns, i, valid_ids, graph) ==
    IF i > Len(conns) THEN [error |-> NoError, graph |-> graph]
    ELSE LET conn == conns[i]
             conn_id == Get(conn, "id", "unknown")
             source_id == Get(conn, "sourceId", PyNone)
             dest_id == Get(conn, "destinationId", PyNone)
             conn_name == Get(conn, "name", "Connection " \o Str(conn_id))
         IN  IF InvalidEndpoint(source_id, valid_ids)
             THEN [error |-> FlowValidationError(
                       "Connection '" \o Str(conn_name) \o "' has invalid source: "
                           \o Str(source_id), conn_id, conn_name),
                   graph |-> graph]
             ELSE IF InvalidEndpoint(dest_id, valid_ids)
             THEN [error |-> FlowValidationError(
                       "Connection '" \o Str(conn_name) \o "' has invalid destination: "
                           \o Str(dest_id), conn_id, conn_name),
                   graph |-> graph]
             ELSE ConnectionLoop(conns, i + 1, valid_ids,
                                 GraphAppend(graph, source_id, dest_id))

----------------------------------------------------------------------------
(* Tier 2, cycles: _detect_cycles *)

\* the closure state of _detect_cycles
DfsInit == [cycles |-> << >>, visited |-> {}, rec_stack |-> {}, path |-> << >>]

DfsEnter(st, node) ==
    [st EXCEPT !.visited = @ \cup {node},
               !.rec_stack = @ \cup {node},
               !.path = Append(@, node)]

\* mutant: a finished node is left on the path and on the recursion stack
DfsLeave_NoUnwind(st, node) == st

\* path.pop(); rec_stack.remove(node)
DfsLeave(st, node) ==
    [st EXCEPT !.path = SubSeq(@, 1, Len(@) - 1),
               !.rec_stack = @ \ {node}]

\* mutant: the closing node is not appended to the slice
RecordCycle_NoClosingNode(st, neighbor) ==
    LET cycle_start == IndexOf(st.path, neighbor)
    IN  [st EXCEPT !.cycles =
            Append(@, SubSeq(st.path, cycle_start, Len(st.path)))]

\* cycles.append(path[cycle_start:] + [neighbor])
RecordCycle(st, neighbor) ==
    LET cycle_start == IndexOf(st.path, neighbor)
    IN  [st EXCEPT !.cycles =
            Append(@, SubSeq(st.path, cycle_start, Len(st.path)) \o <<neighbor>>)]

RECURSIVE dfs(_, _, _), DfsNeighbors(_, _, _, _)
dfs(graph, st, node) == DfsNeighbors(graph, DfsEnter(st, node), node, 1)

\* the loop `for neighbor in graph.get(node, [])` from its i-th element on;
\* yields the closure state and the value dfs(node) returns
DfsNeighbors(graph, st, node, i) ==
    LET neighbors == Get(graph.adj, node, << >>)
    IN  IF i > Len(neighbors)
        THEN [st |-> DfsLeave(st, node), found |-> FALSE]
        ELSE LET neighbor == neighbors[i]
             IN  IF neighbor \notin st.visited
                 THEN LET r == dfs(graph, st, neighbor)
                      IN  IF r.found THEN r
                          ELSE DfsNeighbors(graph, r.st, node, i + 1)
                 ELSE IF neighbor \in st.rec_stack
                 THEN [st |-> RecordCycle(st, neighbor), found |-> TRUE]
                 ELSE DfsNeighbors(graph, st, node, i + 1)

\* mutant: the search starts from the first key only
DfsRoots_FirstOnly(graph, st, i) ==
    IF Len(graph.keys) = 0 THEN st ELSE dfs(graph, st, graph.keys[1]).st

\* the loop `for node in graph` from its i-th key on
RECURSIVE DfsRoots(_, _, _)
DfsRoots(graph, st, i) ==
    IF i > Len(graph.keys) THEN st
    ELSE IF graph.keys[i] \notin st.visited
    THEN DfsRoots(graph, dfs(graph, st, graph.keys[i]).st, i + 1)
    ELSE DfsRoots(graph, st, i + 1)

detect_cycles(graph) == DfsRoots(graph, DfsInit, 1).cycles

RECURSIVE Join(_, _)
Join(sep, parts) ==
    IF Len(parts) = 0 THEN ""
    ELSE IF Len(parts) = 1 THEN parts[1]
    ELSE parts[1] \o sep \o Join(sep, Tail(parts))

CycleWarning(cycle) ==
    [type |-> "circular_dependency", severity |-> "HIGH", cycle |-> cycle,
     message |-> "Circular dependency detected: " \o Join(" -> ", cycle)]

CycleWarnings(cycles) == [i \in 1..Len(cycles) |-> CycleWarning(cycles[i])]

----------------------------------------------------------------------------
(* Property maps: a dict whose iteration order matters is the sequence of  *)
(* its <<key, value>> items, keys distinct, in insertion order.            *)

ItemKeys(items) == {items[i][1] : i \in DOMAIN items}

ItemGet(items, k, default) ==
    IF k \in ItemKeys(items)
    THEN items[CHOOSE i \in DOMAIN items : items[i][1] = k][2]
    ELSE default

\* d[k] = v on an insertion-ordered dict
ItemSet(items, k, v) ==
    IF k \in ItemKeys(items)
    THEN [i \in DOMAIN items |-> IF items[i][1] = k THEN <<k, v>> ELSE items[i]]
    ELSE Append(items, <<k, v>>)

\* {**a, **b}
RECURSIVE ItemMerge(_, _)
ItemMerge(a, b) ==
    IF Len(b) = 0 THEN a
    ELSE ItemMerge(ItemSet(a, b[1][1], b[1][2]), Tail(b))

\* the `all_props` of a processor: direct properties, then config.properties
AllProps(component) ==
    LET props == Get(component, "properties", << >>)
        config == Get(component, "config", EmptyDict)
        config_props == Get(config, "properties", << >>)
    IN  ItemMerge(props, config_props)

----------------------------------------------------------------------------
(* Character strings *)

UPPERCASE ==
    <<"A","B","C","D","E","F","G","H","I","J","K","L","M",
      "N","O","P","Q","R","S","T","U","V","W","X","Y","Z">>

LOWERCASE ==
    <<"a","b","c","d","e","f","g","h","i","j","k","l","m",
      "n","o","p","q","r","s","t","u","v","w","x","y","z">>

LowerChar(c) ==
    IF \E i \in DOMAIN UPPERCASE : UPPERCASE[i] = c
    THEN LOWERCASE[CHOOSE i \in DOMAIN UPPERCASE : UPPERCASE[i] = c]
    ELSE c

\* str.lower() on character strings
Lower(s) == [i \in DOMAIN s |-> LowerChar(s[i])]

WHITESPACE == {" ", "\t", "\n", "\r"}

RECURSIVE LStrip(_)
LStrip(s) ==
    IF Len(s) > 0 /\ s[1] \in WHITESPACE THEN LStrip(Tail(s)) ELSE s

RECURSIVE RStrip(_)
RStrip(s) ==
    IF Len(s) > 0 /\ s[Len(s)] \in WHITESPACE
    THEN RStrip(SubSeq(s, 1, Len(s) - 1)) ELSE s

\* str.strip()
Strip(s) == RStrip(LStrip(s))

\* s.split(ch)[0]
SplitFirst(s, ch) ==
    IF \E i \in DOMAIN s : s[i] = ch
    THEN SubSeq(s, 1, IndexOf(s, ch) - 1)
    ELSE s

\* any(marker in s for marker in markers)
ContainsAny(s, markers) == \E i \in DOMAIN markers : Contains(s, markers[i])

T_Unknown == <<"U","n","k","n","o","w","n">>

----------------------------------------------------------------------------
(* Tier 2, processors *)

AttributeError ==
    [kind |-> "AttributeError",
     message |-> "'NoneType' object has no attribute 'strip'",
     component_id |-> PyNone, component_name |-> PyNone]

\* the outcome of `not script_body.strip() and not script_file.strip()`:
\* "raise" when it is true, "pass" when it is false, "crash" when .strip()
\* is called on None
ScriptCheck(all_props) ==
    LET script_body == ItemGet(all_props, SCRIPT_BODY, << >>)
        script_file == ItemGet(all_props, SCRIPT_FILE, << >>)
    IN  IF script_body = CNone THEN "crash"
        ELSE IF Strip(script_body) # << >> THEN "pass"
        ELSE IF script_file = CNone THEN "crash"
        ELSE IF Strip(script_file) # << >> THEN "pass"
        ELSE "raise"

\* the warning with a severity outside HIGH, MEDIUM, LOW
DisabledWarning_Informational(proc_name, proc_id) ==
    [type |-> "disabled_processor", severity |-> "INFO",
     processor |-> proc_name, processor_id |-> proc_id,
     message |-> "Processor '" \o Str(proc_name) \o "' is disabled"]

DisabledWarning(proc_name, proc_id) ==
    [type |-> "disabled_processor", severity |-> "LOW",
     processor |-> proc_name, processor_id |-> proc_id,
     message |-> "Processor '" \o Str(proc_name) \o "' is disabled"]

DeadEndWarning(proc_name, proc_id) ==
    [type |-> "dead_end_processor", severity |-> "MEDIUM",
     processor |-> proc_name, processor_id |-> proc_id,
     message |-> "Non-terminal processor '" \o Str(proc_name)
                     \o "' has no outbound connections"]

IsScriptProcessor(proc_type) == ContainsAny(proc_type, SCRIPT_TYPES)

IsTerminal(proc_type) == ContainsAny(proc_type, TERMINAL_TYPES)

\* `relationships and proc_id not in connection_graph` and not terminal
IsDeadEnd_IgnoresRelationships(component, proc_id, graph) ==
    /\ proc_id \notin DOMAIN graph.adj
    /\ ~IsTerminal(Get(component, "type", T_Unknown))

IsDeadEnd(component, proc_id, graph) ==
    /\ Len(Get(component, "relationships", << >>)) > 0
    /\ proc_id \notin DOMAIN graph.adj
    /\ ~IsTerminal(Get(component, "type", T_Unknown))

RECURSIVE ProcessorLoop(_, _, _, _)
ProcessorLoop(procs, i, graph, ws) ==
    IF i > Len(procs) THEN [error |-> NoError, warnings |-> ws]
    ELSE LET proc == procs[i]
             proc_id == Get(proc, "id", PyNone)
             component == Get(proc, "component", EmptyDict)
             proc_name == Get(component, "name", "Unnamed")
             proc_type == Get(component, "type", T_Unknown)
             proc_state == Get(component, "state", "STOPPED")
             ws1 == IF proc_state = "DISABLED"
                    THEN Append(ws, DisabledWarning(proc_name, proc_id)) ELSE ws
             check == IF IsScriptProcessor(proc_type)
                      THEN ScriptCheck(AllProps(component)) ELSE "pass"
             ws2 == IF IsDeadEnd(component, proc_id, graph)
                    THEN Append(ws1, DeadEndWarning(proc_name, proc_id)) ELSE ws1
         IN  IF check = "crash" THEN [error |-> AttributeError, warnings |-> << >>]
             ELSE IF check = "raise"
             THEN [error |-> FlowValidationError(
                       "Script processor '" \o Str(proc_name) \o "' has no script",
                       proc_id, proc_name),
                   warnings |-> << >>]
             ELSE ProcessorLoop(procs, i + 1, graph, ws2)

----------------------------------------------------------------------------
(* Tier 2, parameters *)

\* name = param.get("name") or param.get("parameter", {}).get("name")
ParamName(param) ==
    LET direct == Get(param, "name", CNone)
    IN  IF direct # CNone /\ direct # << >> THEN direct
        ELSE Get(Get(param, "parameter", EmptyDict), "name", CNone)

ContextParams(ctx) ==
    {ParamName(param) : param \in Range(Get(ctx, "parameters", << >>))}
        \ {CNone, << >>}

DefinedParams(parameter_contexts) ==
    UNION {ContextParams(ctx) : ctx \in Range(parameter_contexts)}

\* position of the first "}" of s at or after position i, 0 when there is none
RECURSIVE FirstClose(_, _)
FirstClose(s, i) ==
    IF i > Len(s) THEN 0
    ELSE IF s[i] = "}" THEN i
    ELSE FirstClose(s, i + 1)

\* re.compile(r'\$\{([^}]+)\}').findall(s), scanning from position i
RECURSIVE FindAll(_, _)
FindAll(s, i) ==
    IF i + 1 > Len(s) THEN << >>
    ELSE IF s[i] = "$" /\ s[i + 1] = "{"
    THEN LET j == FirstClose(s, i + 2)
         IN  IF j > i + 2
             THEN <<SubSeq(s, i + 2, j - 1)>> \o FindAll(s, j + 1)
             ELSE FindAll(s, i + 1)
    ELSE FindAll(s, i + 1)

DOLLAR_BRACE == <<"$", "{">>

IsSystem(param_name) ==
    \/ \E i \in DOMAIN NIFI_SYSTEM_FUNCTIONS :
           StartsWith(param_name, SplitFirst(NIFI_SYSTEM_FUNCTIONS[i], "("))
    \/ \E i \in DOMAIN NIFI_SYSTEM_PROPERTIES :
           StartsWith(param_name, NIFI_SYSTEM_PROPERTIES[i])

UndefinedParameterWarning(proc_name, param_name, prop_name) ==
    [type |-> "undefined_parameter", severity |-> "MEDIUM",
     processor |-> proc_name, parameter |-> param_name, property |-> prop_name,
     message |-> <<"Undefined parameter: ", param_name>>]

\* the warnings of the fragments `matches`, from the i-th on
RECURSIVE MatchLoop(_, _, _, _, _)
MatchLoop(matches, i, proc_name, prop_name, defined_params) ==
    IF i > Len(matches) THEN << >>
    ELSE LET param_name == Strip(SplitFirst(matches[i], ":"))
             rest == MatchLoop(matches, i + 1, proc_name, prop_name, defined_params)
         IN  IF ~IsSystem(param_name) /\ param_name \notin defined_params
             THEN <<UndefinedParameterWarning(proc_name, param_name, prop_name)>> \o rest
             ELSE rest

RECURSIVE PropertyLoop(_, _, _, _)
PropertyLoop(all_props, i, proc_name, defined_params) ==
    IF i > Len(all_props) THEN << >>
    ELSE LET prop_name == all_props[i][1]
             prop_value == all_props[i][2]
             rest == PropertyLoop(all_props, i + 1, proc_name, defined_params)
         IN  IF prop_value = CNone \/ ~Contains(prop_value, DOLLAR_BRACE)
             THEN rest
             ELSE MatchLoop(FindAll(prop_value, 1), 1, proc_name, prop_name,
                            defined_params) \o rest

RECURSIVE ParameterLoop(_, _, _)
ParameterLoop(procs, i, defined_params) ==
    IF i > Len(procs) THEN << >>
    ELSE LET component == Get(procs[i], "component", EmptyDict)
             proc_name == Get(component, "name", "Unnamed")
         IN  PropertyLoop(AllProps(component), 1, proc_name, defined_params)
                 \o ParameterLoop(procs, i + 1, defined_params)

----------------------------------------------------------------------------
(* Tier 3: _validate_integrity *)

COMPONENT_LISTS == <<"processors", "connections", "controller_services",
                     "process_groups", "input_ports", "output_ports",
                     "funnels", "remote_process_groups">>

\* the loops without the all_uuids lookup
RECURSIVE IntegrityLoop_NoDuplicateCheck(_, _, _, _)
IntegrityLoop_NoDuplicateCheck(d, k, i, all_uuids) ==
    IF k > Len(COMPONENT_LISTS) THEN NoError
    ELSE IF i > Len(d[COMPONENT_LISTS[k]])
    THEN IntegrityLoop_NoDuplicateCheck(d, k + 1, 1, all_uuids)
    ELSE IF ~Truthy(Get(d[COMPONENT_LISTS[k]][i], "id", PyNone))
    THEN FlowValidationError(COMPONENT_LISTS[k] \o " component missing ID",
                             PyNone, PyNone)
    ELSE IntegrityLoop_NoDuplicateCheck(d, k, i + 1, all_uuids)

\* both loops of _validate_integrity: list k of component_lists from its
\* i-th component on; all_uuids maps the IDs seen to their collection
RECURSIVE IntegrityLoop(_, _, _, _)
IntegrityLoop(d, k, i, all_uuids) ==
    IF k > Len(COMPONENT_LISTS) THEN NoError
    ELSE IF i > Len(d[COMPONENT_LISTS[k]]) THEN IntegrityLoop(d, k + 1, 1, all_uuids)
    ELSE LET comp_type == COMPONENT_LISTS[k]
             comp_id == Get(d[comp_type][i], "id", PyNone)
         IN  IF ~Truthy(comp_id)
             THEN FlowValidationError(comp_type \o " component missing ID",
                                      PyNone, PyNone)
             ELSE IF comp_id \in DOMAIN all_uuids
             THEN FlowValidationError(
                      "Duplicate UUID: " \o comp_id \o " in " \o comp_type
                          \o " and " \o all_uuids[comp_id],
                      comp_id, PyNone)
             ELSE IntegrityLoop(d, k, i + 1, all_uuids @@ (comp_id :> comp_type))

validate_integrity(d) == IntegrityLoop(d, 1, 1, EmptyDict)

----------------------------------------------------------------------------
(* Security audit: _security_audit *)

\* a pattern \bw\b
Word(w) == [head |-> w, tail |-> << >>]

\* a pattern \ba[_-]?b\b
WordPair(a, b) == [head |-> a, tail |-> b]

SENSITIVE_PATTERNS ==
    <<
      Word(<<"p","a","s","s","w","o","r","d">>),
      Word(<<"p","a","s","s","w","d">>),
      Word(<<"p","w","d">>),
      Word(<<"s","e","c","r","e","t">>),
      WordPair(<<"a","p","i">>, <<"k","e","y">>),
      Word(<<"a","p","i","k","e","y">>),
      WordPair(<<"a","c","c","e","s","s">>, <<"k","e","y">>),
      WordPair(<<"p","r","i","v","a","t","e">>, <<"k","e","y">>),
      WordPair(<<"a","u","t","h">>, <<"t","o","k","e","n">>),
      Word(<<"c","r","e","d","e","n","t","i","a","l">>),
      Word(<<"c","e","r","t","i","f","i","c","a","t","e">>),
      Word(<<"c","e","r","t">>),
      Word(<<"s","s","l">>),
      Word(<<"t","l","s">>),
      Word(<<"t","r","u","s","t","s","t","o","r","e">>),
      Word(<<"k","e","y","s","t","o","r","e">>),
      WordPair(<<"e","n","c","r","y","p","t","i","o","n">>, <<"k","e","y">>),
      Word(<<"b","e","a","r","e","r">>),
      Word(<<"o","a","u","t","h">>)
    >>

INSECURE_PROTOCOLS ==
    <<<<"h","t","t","p",":","/","/">>,
      <<"f","t","p",":","/","/">>,
      <<"t","e","l","n","e","t",":","/","/">>,
      <<"l","d","a","p",":","/","/">>>>

WORD_CHARS ==
    {"a","b","c","d","e","f","g","h","i","j","k","l","m",
     "n","o","p","q","r","s","t","u","v","w","x","y","z",
     "0","1","2","3","4","5","6","7","8","9","_"}

\* \w
IsWordChar(c) == LowerChar(c) \in WORD_CHARS

\* the strings a pattern matches, up to case
Literals(pattern) ==
    IF pattern.tail = << >> THEN {pattern.head}
    ELSE {pattern.head \o pattern.tail,
          pattern.head \o <<"_">> \o pattern.tail,
          pattern.head \o <<"-">> \o pattern.tail}

\* the literal occurs in s at position i, between two word boundaries
MatchesAt(s, i, literal) ==
    /\ i + Len(literal) - 1 <= Len(s)
    /\ Lower(SubSeq(s, i, i + Len(literal) - 1)) = literal
    /\ (i = 1 \/ ~IsWordChar(s[i - 1]))
    /\ (i + Len(literal) > Len(s) \/ ~IsWordChar(s[i + Len(literal)]))

\* regex.search(s) for the pattern compiled with re.IGNORECASE
Search(pattern, s) ==
    \E literal \in Literals(pattern) : \E i \in DOMAIN s : MatchesAt(s, i, literal)

IsSensitive(prop_name) ==
    \E k \in DOMAIN SENSITIVE_PATTERNS : Search(SENSITIVE_PATTERNS[k], prop_name)

\* isinstance(prop_value, str)
IsStr(prop_value) == prop_value # CNone

\* s.rstrip(chars)
RECURSIVE RStripChars(_, _)
RStripChars(s, chars) ==
    IF Len(s) > 0 /\ s[Len(s)] \in chars
    THEN RStripChars(SubSeq(s, 1, Len(s) - 1), chars)
    ELSE s

CredentialFinding(proc_name, proc_id, prop_name) ==
    [type |-> "hardcoded_credential", severity |-> "HIGH",
     processor |-> proc_name, processor_id |-> proc_id, property |-> prop_name,
     message |-> <<"Potential hardcoded credential in '", prop_name, "'">>,
     recommendation |-> "Use Parameter Context or secrets manager"]

ProtocolFinding(proc_name, proc_id, prop_name, protocol) ==
    [type |-> "insecure_protocol", severity |-> "MEDIUM",
     processor |-> proc_name, processor_id |-> proc_id, property |-> prop_name,
     protocol |-> RStripChars(protocol, {":", "/"}),
     message |-> <<"Insecure protocol '", protocol, "' detected">>,
     recommendation |-> "Use encrypted alternative (HTTPS, SFTP, etc.)"]

ServiceCredentialFinding(cs_name, cs_id, prop_name) ==
    [type |-> "hardcoded_credential_service", severity |-> "HIGH",
     controller_service |-> cs_name, controller_service_id |-> cs_id,
     property |-> prop_name,
     message |-> "Potential hardcoded credential in service '" \o Str(cs_name) \o "'",
     recommendation |-> "Use Parameter Context"]

\* the test without its third conjunct
IsHardcoded_NoExpressionExemption(prop_name, prop_value) ==
    IsSensitive(prop_name) /\ prop_value # << >>

\* `is_sensitive and prop_value and "${" not in prop_value`
IsHardcoded(prop_name, prop_value) ==
    /\ IsSensitive(prop_name)
    /\ prop_value # << >>
    /\ ~Contains(prop_value, DOLLAR_BRACE)

\* the findings one property of a processor adds
ProcessorPropertyFindings(proc_name, proc_id, prop_name, prop_value) ==
    IF ~IsStr(prop_value) THEN << >>
    ELSE (IF IsHardcoded(prop_name, prop_value)
          THEN <<CredentialFinding(proc_name, proc_id, prop_name)>>
          ELSE << >>)
         \o Flatten([k \in DOMAIN INSECURE_PROTOCOLS |->
                IF Contains(Lower(prop_value), INSECURE_PROTOCOLS[k])
                THEN <<ProtocolFinding(proc_name, proc_id, prop_name,
                                       INSECURE_PROTOCOLS[k])>>
                ELSE << >>])

ProcessorFindings(proc) ==
    LET component == Get(proc, "component", EmptyDict)
        proc_name == Get(component, "name", "Unnamed")
        proc_id == Get(proc, "id", PyNone)
        all_props == AllProps(component)
    IN  Flatten([j \in DOMAIN all_props |->
            ProcessorPropertyFindings(proc_name, proc_id,
                                      all_props[j][1], all_props[j][2])])

\* the findings one property of a controller service adds
ServicePropertyFindings(cs_name, cs_id, prop_name, prop_value) ==
    IF IsStr(prop_value) /\ IsHardcoded(prop_name, prop_value)
    THEN <<ServiceCredentialFinding(cs_name, cs_id, prop_name)>>
    ELSE << >>

ServiceFindings(cs) ==
    LET component == Get(cs, "component", EmptyDict)
        cs_name == Get(component, "name", "Unnamed")
        cs_id == Get(cs, "id", PyNone)
        properties == Get(component, "properties", << >>)
    IN  Flatten([j \in DOMAIN properties |->
            ServicePropertyFindings(cs_name, cs_id,
                                    properties[j][1], properties[j][2])])

security_audit(d) ==
    Flatten([i \in DOMAIN d["processors"] |-> ProcessorFindings(d["processors"][i])])
    \o Flatten([i \in DOMAIN d["controller_services"] |->
                   ServiceFindings(d["controller_services"][i])])

----------------------------------------------------------------------------
(* Performance analysis: _analyze_performance, _calculate_complexity_score *)

\* Python numbers and strings that the code compares with each other
PyInt(n) == <<"int", n>>

PyStr(s) == <<"str", s>>

\* a == b on such values
PyEq(a, b) == a[1] = b[1] /\ a[2] = b[2]

\* a or b
PyOr(a, b) == IF Truthy(a) THEN a ELSE b

INTENSIVE_TYPES ==
    <<
      [category |-> "scripting",
       types |-> <<<<"E","x","e","c","u","t","e","S","c","r","i","p","t">>,
                   <<"E","x","e","c","u","t","e","G","r","o","o","v","y">>,
                   <<"E","x","e","c","u","t","e","P","y","t","h","o","n">>>>],
      [category |-> "database",
       types |-> <<<<"E","x","e","c","u","t","e","S","Q","L">>,
                   <<"Q","u","e","r","y","D","a","t","a","b","a","s","e","T","a","b","l","e">>,
                   <<"P","u","t","S","Q","L">>>>],
      [category |-> "record",
       types |-> <<<<"Q","u","e","r","y","R","e","c","o","r","d">>,
                   <<"U","p","d","a","t","e","R","e","c","o","r","d">>,
                   <<"V","a","l","i","d","a","t","e","R","e","c","o","r","d">>>>],
      [category |-> "transform",
       types |-> <<<<"J","o","l","t","T","r","a","n","s","f","o","r","m">>,
                   <<"T","r","a","n","s","f","o","r","m","X","m","l">>,
                   <<"C","o","n","v","e","r","t","R","e","c","o","r","d">>>>],
      [category |-> "compression",
       types |-> <<<<"C","o","m","p","r","e","s","s","C","o","n","t","e","n","t">>,
                   <<"U","n","p","a","c","k","C","o","n","t","e","n","t">>>>],
      [category |-> "encryption",
       types |-> <<<<"E","n","c","r","y","p","t","C","o","n","t","e","n","t">>,
                   <<"D","e","c","r","y","p","t","C","o","n","t","e","n","t">>>>]
    >>

\* the first category one of whose types occurs in proc_type, 0 when none
IntensiveCategory(proc_type) ==
    IF \E k \in DOMAIN INTENSIVE_TYPES : ContainsAny(proc_type, INTENSIVE_TYPES[k].types)
    THEN CHOOSE k \in DOMAIN INTENSIVE_TYPES :
             /\ ContainsAny(proc_type, INTENSIVE_TYPES[k].types)
             /\ \A m \in 1..(k - 1) : ~ContainsAny(proc_type, INTENSIVE_TYPES[m].types)
    ELSE 0

IntensiveProcessor(proc, k) ==
    LET component == Get(proc, "component", EmptyDict)
        config == Get(component, "config", EmptyDict)
    IN  [processor |-> Get(component, "name", "Unnamed"),
         processor_id |-> Get(proc, "id", PyNone),
         type |-> Get(component, "type", << >>),
         category |-> INTENSIVE_TYPES[k].category,
         concurrent_tasks |->
             PyOr(Get(component, "maxConcurrentTasks", PyNone),
                  Get(config, "concurrentlySchedulableTaskCount", "1")),
         scheduling |->
             PyOr(Get(component, "schedulingStrategy", PyNone),
                  Get(config, "schedulingStrategy", "TIMER_DRIVEN"))]

ResourceIntensive(procs) ==
    Flatten([i \in DOMAIN procs |->
        LET k == IntensiveCategory(Get(Get(procs[i], "component", EmptyDict), "type", << >>))
        IN  IF k = 0 THEN << >> ELSE <<IntensiveProcessor(procs[i], k)>>])

\* `bp_obj == 0 or bp_size == "0 MB"`
NoBackpressure(conn) ==
    \/ PyEq(Get(conn, "backPressureObjectThreshold", PyInt(0)), PyInt(0))
    \/ PyEq(Get(conn, "backPressureDataSizeThreshold", PyStr("0 MB")), PyStr("0 MB"))

BackpressureRisk(conn) ==
    [connection_id |-> Get(conn, "id", PyNone),
     source_id |-> Get(conn, "sourceId", PyNone),
     destination_id |-> Get(conn, "destinationId", PyNone),
     message |-> "No backpressure configured"]

BackpressureRisks(conns) ==
    Flatten([i \in DOMAIN conns |->
        IF NoBackpressure(conns[i]) THEN <<BackpressureRisk(conns[i])>> ELSE << >>])

COMPLEXITY_MAX_PROCESSOR_SCORE == 30

COMPLEXITY_MAX_CONNECTION_SCORE == 20

COMPLEXITY_MAX_GROUP_SCORE == 20

COMPLEXITY_MAX_DEPTH_SCORE == 30

COMPLEXITY_WEIGHT_GROUPS == 2

COMPLEXITY_WEIGHT_DEPTH == 5

\* floats are carried in millionths
MICRO == 1000000

\* math.log(n) in millionths, rounded down, for n = 1 .. Len(LN_MICRO)
LN_MICRO ==
    <<
      0, 693147, 1098612, 1386294, 1609437, 1791759, 1945910, 2079441,
      2197224, 2302585, 2397895, 2484906, 2564949, 2639057, 2708050, 2772588,
      2833213, 2890371, 2944438, 2995732, 3044522, 3091042, 3135494, 3178053,
      3218875, 3258096, 3295836, 3332204, 3367295, 3401197, 3433987, 3465735,
      3496507, 3526360, 3555348, 3583518, 3610917, 3637586, 3663561, 3688879
    >>

Min(a, b) == IF a <= b THEN a ELSE b

Max(a, b) == IF a >= b THEN a ELSE b

\* max(... for p in procs, default=0) over _hierarchy_depth
MaxDepth(procs) ==
    IF Len(procs) = 0 THEN 0
    ELSE LET depths == {Get(procs[i], "_hierarchy_depth", 0) : i \in DOMAIN procs}
         IN  CHOOSE m \in depths : \A n \in depths : n <= m

\* the score with the group term left uncapped
calculate_complexity_score_UncappedGroups(d) ==
    LET proc_count == Len(d["processors"])
        conn_count == Len(d["connections"])
        proc_score == IF proc_count > 0
                      THEN Min(LN_MICRO[proc_count + 1] * 10,
                               COMPLEXITY_MAX_PROCESSOR_SCORE * MICRO)
                      ELSE 0
        conn_score == IF conn_count > 0
                      THEN Min(LN_MICRO[conn_count + 1] * 7,
                               COMPLEXITY_MAX_CONNECTION_SCORE * MICRO)
                      ELSE 0
        group_score == Len(d["process_groups"]) * COMPLEXITY_WEIGHT_GROUPS * MICRO
        depth_score == Min(MaxDepth(d["processors"]) * COMPLEXITY_WEIGHT_DEPTH,
                           COMPLEXITY_MAX_DEPTH_SCORE) * MICRO
    IN  Min((proc_score + conn_score + group_score + depth_score) \div MICRO, 100)

calculate_complexity_score(d) ==
    LET proc_count == Len(d["processors"])
        conn_count == Len(d["connections"])
        group_count == Len(d["process_groups"])
        proc_score == IF proc_count > 0
                      THEN Min(LN_MICRO[proc_count + 1] * 10,
                               COMPLEXITY_MAX_PROCESSOR_SCORE * MICRO)
                      ELSE 0
        conn_score == IF conn_count > 0
                      THEN Min(LN_MICRO[conn_count + 1] * 7,
                               COMPLEXITY_MAX_CONNECTION_SCORE * MICRO)
                      ELSE 0
        group_score == Min(group_count * COMPLEXITY_WEIGHT_GROUPS,
                           COMPLEXITY_MAX_GROUP_SCORE) * MICRO
        depth_score == Min(MaxDepth(d["processors"]) * COMPLEXITY_WEIGHT_DEPTH,
                           COMPLEXITY_MAX_DEPTH_SCORE) * MICRO
        score == proc_score + conn_score + group_score + depth_score
    IN  Min(score \div MICRO, 100)

PerformanceRecommendations(intensive) ==
    IF Len(intensive) > 10
    THEN <<[category |-> "performance", severity |-> "HIGH",
            message |-> ToString(Len(intensive)) \o " resource-intensive processors",
            recommendation |-> "Plan adequate cluster resources"]>>
    ELSE << >>

analyze_performance(d) ==
    LET intensive == ResourceIntensive(d["processors"])
    IN  [resource_intensive_processors |-> intensive,
         backpressure_risks |-> BackpressureRisks(d["connections"]),
         parallelism_opportunities |-> << >>,
         flow_complexity |->
             [total_processors |-> Len(d["processors"]),
              total_connections |-> Len(d["connections"]),
              total_process_groups |-> Len(d["process_groups"]),
              max_depth |-> MaxDepth(d["processors"]),
              complexity_score |-> calculate_complexity_score(d)],
         scheduling_analysis |-> << >>,
         recommendations |-> PerformanceRecommendations(intensive)]

----------------------------------------------------------------------------
(* Expression inventory: _analyze_expressions *)

\* the part of s after the first occurrence of character c, empty when
\* there is none
AfterFirst(s, c) ==
    IF \E i \in DOMAIN s : s[i] = c
    THEN SubSeq(s, (CHOOSE i \in DOMAIN s : s[i] = c /\ \A j \in 1..(i - 1) : s[j] # c) + 1,
                Len(s))
    ELSE << >>

ENV_PREFIX == <<"e","n","v",".">>

COMMON_ATTRS ==
    {<<"f","i","l","e","n","a","m","e">>,
     <<"p","a","t","h">>,
     <<"a","b","s","o","l","u","t","e",".","p","a","t","h">>,
     <<"u","u","i","d">>,
     <<"e","n","t","r","y","D","a","t","e">>,
     <<"l","i","n","e","a","g","e","S","t","a","r","t","D","a","t","e">>}

\* defaultdict(list): d[k].append(v)
DictAppend(d, k, v) ==
    IF k \in DOMAIN d THEN [d EXCEPT ![k] = Append(@, v)] ELSE d @@ (k :> <<v>>)

EmptyInventory ==
    [flow_file_attributes |-> EmptyDict, system_functions |-> EmptyDict,
     environment_variables |-> EmptyDict, parameter_references |-> EmptyDict,
     unknown_expressions |-> EmptyDict]

\* prop_value[:100] + "..." if len(prop_value) > 100 else prop_value
FullValue(prop_value) ==
    IF Len(prop_value) > 100
    THEN SubSeq(prop_value, 1, 100) \o <<".", ".", ".">>
    ELSE prop_value

\* the bucket and the key under which an expression is filed
Category(expression) ==
    IF StartsWith(expression, ENV_PREFIX)
    THEN [bucket |-> "environment_variables",
          key |-> SplitFirst(SplitFirst(AfterFirst(expression, "."), "."), ":")]
    ELSE IF \E k \in DOMAIN NIFI_SYSTEM_FUNCTIONS :
                StartsWith(expression, SplitFirst(NIFI_SYSTEM_FUNCTIONS[k], "("))
    THEN [bucket |-> "system_functions", key |-> SplitFirst(expression, "(")]
    ELSE IF \E k \in DOMAIN NIFI_SYSTEM_PROPERTIES :
                StartsWith(expression, NIFI_SYSTEM_PROPERTIES[k])
    THEN [bucket |-> "system_functions", key |-> SplitFirst(expression, ":")]
    ELSE IF \E i \in DOMAIN expression : expression[i] = ":"
    THEN [bucket |-> "flow_file_attributes", key |-> SplitFirst(expression, ":")]
    ELSE IF expression \in COMMON_ATTRS \/ \E i \in DOMAIN expression : expression[i] = "."
    THEN [bucket |-> "flow_file_attributes", key |-> expression]
    ELSE [bucket |-> "unknown_expressions", key |-> expression]

\* the properties of a processor the inventory looks into
ExpressionProps(proc) ==
    SelectSeq(AllProps(Get(proc, "component", EmptyDict)),
              LAMBDA item : IsStr(item[2]) /\ Contains(item[2], DOLLAR_BRACE))

\* one record per match of the expression pattern, in the order of the loops
ExpressionMatches(procs) ==
    Flatten([i \in DOMAIN procs |->
        LET items == ExpressionProps(procs[i]) IN
        Flatten([j \in DOMAIN items |->
            LET matches == FindAll(items[j][2], 1) IN
            [m \in DOMAIN matches |->
                [expression |-> Strip(matches[m]),
                 usage_info |->
                     [processor |-> Get(Get(procs[i], "component", EmptyDict),
                                        "name", "Unnamed"),
                      processor_id |-> Get(procs[i], "id", PyNone),
                      property |-> items[j][1],
                      full_value |-> FullValue(items[j][2])]]]])])

RECURSIVE FileMatches(_, _, _)
FileMatches(inventory, matches, m) ==
    IF m > Len(matches) THEN inventory
    ELSE LET c == Category(matches[m].expression)
         IN  FileMatches([inventory EXCEPT ![c.bucket] =
                              DictAppend(@, c.key, matches[m].usage_info)],
                         matches, m + 1)

analyze_expressions(d) ==
    LET matches == ExpressionMatches(d["processors"])
        inventory == FileMatches(EmptyInventory, matches, 1)
        processors_with_expressions ==
            {Get(d["processors"][i], "id", PyNone) :
                i \in {n \in DOMAIN d["processors"] :
                          Len(ExpressionProps(d["processors"][n])) > 0}}
    IN  inventory @@
        [summary |->
            [total_expressions |-> Len(matches),
             total_processors_with_expressions |->
                 Cardinality(processors_with_expressions),
             by_category |->
                 [b \in DOMAIN inventory |-> Cardinality(DOMAIN inventory[b])]]]

----------------------------------------------------------------------------
(* Readiness: _calculate_migration_readiness *)

READINESS_PENALTY_HIGH_WARNING == 10

READINESS_PENALTY_MEDIUM_WARNING == 5

READINESS_PENALTY_HIGH_SECURITY == 15

READINESS_PENALTY_MEDIUM_SECURITY == 8

\* len([x for x in items if x.get("severity") == severity])
CountSeverity(items, severity) ==
    Len(SelectSeq(items, LAMBDA x : Get(x, "severity", PyNone) = severity))

\* the score without its floor
calculate_migration_readiness_NoFloor(ws, security) ==
    100 - CountSeverity(ws, "HIGH") * READINESS_PENALTY_HIGH_WARNING
        - CountSeverity(ws, "MEDIUM") * READINESS_PENALTY_MEDIUM_WARNING
        - CountSeverity(security, "HIGH") * READINESS_PENALTY_HIGH_SECURITY
        - CountSeverity(security, "MEDIUM") * READINESS_PENALTY_MEDIUM_SECURITY

calculate_migration_readiness(ws, security) ==
    Max(100 - CountSeverity(ws, "HIGH") * READINESS_PENALTY_HIGH_WARNING
            - CountSeverity(ws, "MEDIUM") * READINESS_PENALTY_MEDIUM_WARNING
            - CountSeverity(security, "HIGH") * READINESS_PENALTY_HIGH_SECURITY
            - CountSeverity(security, "MEDIUM") * READINESS_PENALTY_MEDIUM_SECURITY,
        0)

----------------------------------------------------------------------------
(* Flows: the parsed_flow dicts the runs start from *)

\* the dict both loaders build: every collection present, as a list
Flow(processors, connections, controller_services, process_groups, input_ports, output_ports, funnels, labels, remote_process_groups, parameter_contexts) ==
    [processors |-> processors, connections |-> connections,
     controller_services |-> controller_services,
     process_groups |-> process_groups,
     parameter_contexts |-> parameter_contexts,
     input_ports |-> input_ports, output_ports |-> output_ports,
     funnels |-> funnels, labels |-> labels,
     remote_process_groups |-> remote_process_groups,
     templates |-> << >>, reporting_tasks |-> << >>, flow_file_queues |-> << >>]

\* a record with the optional key k, absent when v is None
Opt(k, v) == IF v = PyNone THEN EmptyDict ELSE (k :> v)

Comp(id) == Opt("id", id)

T_GetFile == <<"G","e","t","F","i","l","e">>

Processor(id, name, type, state, relationships, properties, config_properties) ==
    Opt("id", id) @@
    [component |-> [name |-> name, type |-> type, state |-> state,
                    relationships |-> relationships,
                    properties |-> properties,
                    config |-> [properties |-> config_properties]]]

PlainProcessor(id) ==
    Processor(id, "P-" \o Str(id), T_GetFile, "RUNNING", << >>, << >>, << >>)

Connection(id, name, source_id, dest_id) ==
    Opt("id", id) @@ Opt("name", name)
        @@ Opt("sourceId", source_id) @@ Opt("destinationId", dest_id)

\* the connections s[1] -> s[2] of a sequence of endpoint pairs, with
\* distinct IDs k1, k2, ...
Connections(pairs) ==
    [i \in DOMAIN pairs |->
        Connection("k" \o ToString(i), "", pairs[i][1], pairs[i][2])]

(* Graph flows: processors a..c, any connections among them *)

MaxConns == 3

NodeIds == {"a", "b", "c"}

NodeOrder == <<"a", "b", "c">>

GraphFlows ==
    {Flow([i \in DOMAIN NodeOrder |-> PlainProcessor(NodeOrder[i])],
          Connections(pairs),
          << >>, << >>, << >>, << >>, << >>, << >>, << >>, << >>) :
        pairs \in SeqsUpTo(NodeIds \X NodeIds, MaxConns)}

(* Endpoint flows: one component in every collection, one or two           *)
(* connections whose endpoints range over every kind of ID                 *)

EndpointIds ==
    {"a", "g", "g-input-port", "g-output-port", "s", "i", "o", "f", "r", "l",
     "zz", "", PyNone}

EndpointFlow(connections) ==
    Flow(<<PlainProcessor("a")>>, connections, <<Comp("s")>>, <<Comp("g")>>,
         <<Comp("i")>>, <<Comp("o")>>, <<Comp("f")>>, <<Comp("l")>>,
         <<Comp("r")>>, << >>)

SecondConnections ==
    {Connection("k2", "", "a", "a"), Connection("k2", "", "zz", "a"),
     Connection("k2", "", "a", "")}

EndpointFlows ==
    {EndpointFlow(<<Connection(id, name, s, d)>>) :
        id \in {"k1", PyNone}, name \in {"link", PyNone},
        s \in EndpointIds, d \in EndpointIds}
    \cup
    {EndpointFlow(<<Connection("k1", "", s, d), c2>>) :
        s \in EndpointIds, d \in EndpointIds, c2 \in SecondConnections}

(* Integrity flows: processors and extra components whose IDs may be       *)
(* empty or repeated, in and across collections                            *)

MaxProcs == 2

MaxExtras == 1

ExtraCollections ==
    {"connections", "controller_services", "process_groups", "input_ports",
     "output_ports", "funnels", "labels", "remote_process_groups"}

\* the components of collection k among the extras; an extra connection
\* joins processor a to itself
ExtrasOf(extras, k) ==
    LET mine == SelectSeq(extras, LAMBDA x : x[1] = k)
    IN  [i \in DOMAIN mine |->
            IF k = "connections"
            THEN Connection(mine[i][2], "", "a", "a")
            ELSE Comp(mine[i][2])]

IntegrityFlows ==
    {Flow([i \in DOMAIN ids |-> PlainProcessor(ids[i])],
          ExtrasOf(extras, "connections"),
          ExtrasOf(extras, "controller_services"),
          ExtrasOf(extras, "process_groups"),
          ExtrasOf(extras, "input_ports"),
          ExtrasOf(extras, "output_ports"),
          ExtrasOf(extras, "funnels"),
          ExtrasOf(extras, "labels"),
          ExtrasOf(extras, "remote_process_groups"),
          << >>) :
        ids \in SeqsUpTo({"a", "b", ""}, MaxProcs),
        extras \in SeqsUpTo(ExtraCollections \X {"a", "c", PyNone}, MaxExtras)}

(* Processor flows: processors of every kind of type, state, relationships *)
(* and script properties                                                   *)

T_PutSQL == <<"P","u","t","S","Q","L">>

T_PublishKafka == <<"P","u","b","l","i","s","h","K","a","f","k","a">>

T_PostHTTP == <<"P","o","s","t","H","T","T","P">>

T_SendEmail == <<"S","e","n","d","E","m","a","i","l">>

T_ExecuteScript == <<"o","r","g",".","a","p","a","c","h","e",".","n","i","f","i",".","p","r","o","c","e","s","s","o","r","s",".","s","c","r","i","p","t",".","E","x","e","c","u","t","e","S","c","r","i","p","t">>

T_ExecuteGroovyScript == <<"E","x","e","c","u","t","e","G","r","o","o","v","y","S","c","r","i","p","t">>

V_Script == <<"x","=","1">>

V_Blank == <<" ">>

V_File == <<"/","s",".","p","y">>

V_Other == <<"y","=","2">>

PlainTypes == {T_GetFile, T_PutSQL, T_PublishKafka, T_PostHTTP, T_SendEmail}

ScriptTypes == {T_ExecuteScript, T_ExecuteGroovyScript}

\* "absent": the key is not in the map
Absent == << "<absent>" >>

\* the property map with the keys given a value
Props(script_body, script_file) ==
    (IF script_body = Absent THEN << >> ELSE << <<SCRIPT_BODY, script_body>> >>)
    \o (IF script_file = Absent THEN << >> ELSE << <<SCRIPT_FILE, script_file>> >>)

Success == <<[name |-> "success", autoTerminate |-> FALSE]>>

SelfLoop(id) == Connections(<< <<id, id>> >>)

OneProcessorFlows ==
    {Flow(<<Processor("a", "Proc", type, state, rels, << >>, << >>)>>, conns,
          << >>, << >>, << >>, << >>, << >>, << >>, << >>, << >>) :
        type \in PlainTypes, state \in {"RUNNING", "DISABLED"},
        rels \in {<< >>, Success}, conns \in {<< >>, SelfLoop("a")}}
    \cup
    {Flow(<<Processor("a", "Proc", type, "RUNNING", rels,
                      Props(body, file), Props(config_body, Absent))>>,
          << >>, << >>, << >>, << >>, << >>, << >>, << >>, << >>, << >>) :
        type \in ScriptTypes, rels \in {<< >>, Success},
        body \in {Absent, << >>, V_Script, CNone},
        file \in {Absent, V_Blank, V_File, CNone},
        config_body \in {Absent, << >>, V_Other}}

\* what a processor of a two-processor flow may look like
Profiles(id) ==
    {Processor(id, "P-" \o id, T_GetFile, "RUNNING", Success, << >>, << >>),
     Processor(id, "P-" \o id, T_GetFile, "DISABLED", << >>, << >>, << >>),
     Processor(id, "P-" \o id, T_PutSQL, "RUNNING", Success, << >>, << >>),
     Processor(id, "P-" \o id, T_ExecuteScript, "RUNNING", Success,
               Props(V_Script, Absent), << >>),
     Processor(id, "P-" \o id, T_ExecuteScript, "RUNNING", Success,
               Props(<< >>, V_Blank), << >>),
     Processor(id, "P-" \o id, T_ExecuteGroovyScript, "DISABLED", Success,
               << >>, Props(Absent, V_File))}

TwoProcessorFlows ==
    {Flow(<<p, q>>, Connections(pairs),
          << >>, << >>, << >>, << >>, << >>, << >>, << >>, << >>) :
        p \in Profiles("a"), q \in Profiles("b"),
        pairs \in SeqsUpTo({<<"a", "b">>, <<"b", "a">>}, 1)}

(* Parameter flows: one processor whose properties hold expression         *)
(* fragments, with and without parameter contexts declaring their names    *)

N_myParam == <<"m","y","P","a","r","a","m">>

N_inputDir == <<"i","n","p","u","t","D","i","r">>

N_other == <<"o","t","h","e","r">>

K_Directory == <<"D","i","r","e","c","t","o","r","y">>

K_Filter == <<"F","i","l","t","e","r">>

V_myParam == <<"$","{","m","y","P","a","r","a","m","}">>

V_inputDir == <<"$","{","i","n","p","u","t","D","i","r","}">>

V_envHome == <<"$","{","e","n","v",".","H","O","M","E","}">>

V_withDefault == <<"$","{","m","y","P","a","r","a","m",":","t","o","U","p","p","e","r","(",")","}">>

V_now == <<"$","{","n","o","w","(",")","}">>

V_two == <<"$","{"," ","m","y","P","a","r","a","m"," ","}","x","$","{","o","t","h","e","r","}">>

V_plain == <<"p","l","a","i","n">>

V_empty == <<"$","{","}">>

V_open == <<"$","{","o","p","e","n">>

V_in == <<"$","{","i","n","}">>

V_other == <<"$","{","o","t","h","e","r","}">>

PropertyValues ==
    {V_myParam, V_inputDir, V_envHome, V_withDefault, V_now, V_two, V_plain,
     V_empty, V_open, V_in, CNone}

ConfigProperties ==
    {<< >>} \cup
    {<< <<k, v>> >> : k \in {K_Directory, K_Filter}, v \in {V_other, V_myParam, CNone}}

ParameterContexts ==
    {<< >>,
     <<[parameters |-> <<[name |-> N_myParam]>>]>>,
     <<[parameters |-> <<[parameter |-> [name |-> N_inputDir]]>>]>>,
     <<[parameters |-> << >>],
       [parameters |-> <<[name |-> N_other], [parameter |-> [name |-> N_myParam]]>>]>>}

ParameterFlows ==
    {Flow(<<Processor("a", "Proc", T_GetFile, "RUNNING", << >>,
                      << <<K_Directory, v>> >>, config_props)>>,
          << >>, << >>, << >>, << >>, << >>, << >>, << >>, << >>, contexts) :
        v \in PropertyValues, config_props \in ConfigProperties,
        contexts \in ParameterContexts}

(* Security flows: one processor and one controller service, a property   *)
(* of either with a sensitive or plain name and a literal, expression,    *)
(* URL, empty or null value                                               *)

N_Password == <<"P","a","s","s","w","o","r","d">>

N_db_password == <<"d","b",".","p","a","s","s","w","o","r","d">>

N_password_hash == <<"p","a","s","s","w","o","r","d","_","h","a","s","h">>

N_API_Key == <<"A","P","I","-","K","e","y">>

N_Url == <<"U","r","l">>

V_hunter2 == <<"h","u","n","t","e","r","2">>

V_secret_param == <<"$","{","s","e","c","r","e","t","_","p","a","r","a","m","}">>

V_http == <<"h","t","t","p",":","/","/","h">>

V_HTTP == <<"H","T","T","P",":","/","/","h">>

V_sftp == <<"s","f","t","p",":","/","/","h">>

V_https == <<"h","t","t","p","s",":","/","/","h">>

SecurityNames == {N_Password, N_db_password, N_password_hash, N_API_Key, N_Url}

SecurityValues ==
    {V_hunter2, V_secret_param, << >>, CNone, V_http, V_HTTP, V_sftp, V_https}

ControllerService(id, name, properties) ==
    Opt("id", id) @@ [component |-> [name |-> name, properties |-> properties]]

\* where the processor's property sits: component.properties,
\* component.config.properties, or both with the second overriding
PropertyPlacements(prop_name, prop_value) ==
    {<< << <<prop_name, prop_value>> >>, << >> >>,
     << << >>, << <<prop_name, prop_value>> >> >>,
     << << <<prop_name, V_hunter2>> >>, << <<prop_name, prop_value>> >> >>}

SecurityFlows ==
    {Flow(<<Processor("a", "Proc", T_GetFile, "RUNNING", << >>,
                      placement[1], placement[2])>>,
          << >>, services, << >>, << >>, << >>, << >>, << >>, << >>, << >>) :
        placement \in UNION {PropertyPlacements(n, v) :
                                n \in SecurityNames, v \in SecurityValues},
        services \in {<< >>,
                      <<ControllerService("s", "Svc",
                            << <<N_Password, V_secret_param>> >>)>>}}
    \cup
    {Flow(<<PlainProcessor("a")>>, << >>,
          <<ControllerService("s", "Svc", << <<n, v>> >>)>>,
          << >>, << >>, << >>, << >>, << >>, << >>, << >>) :
        n \in SecurityNames, v \in SecurityValues}

(* Readiness flows: one processor, running or disabled, with or without  *)
(* a self-loop and a declared relationship, holding a number of literal   *)
(* credentials and of plain-HTTP URLs                                     *)

MaxCredentials == 8

MaxUrls == 2

\* pwd.x, pwd.xx, ...
N_Credential(i) == <<"p","w","d",".">> \o [k \in 1..i |-> "x"]

\* url.x, url.xx, ...
N_Link(i) == <<"u","r","l",".">> \o [k \in 1..i |-> "x"]

ReadinessFlows ==
    {Flow(<<Processor("a", "Proc", T_GetFile, state, rels,
                      [i \in 1..n |-> <<N_Credential(i), V_hunter2>>],
                      [i \in 1..m |-> <<N_Link(i), V_http>>])>>,
          conns, << >>, << >>, << >>, << >>, << >>, << >>, << >>, << >>) :
        state \in {"RUNNING", "DISABLED"}, rels \in {<< >>, Success},
        conns \in {<< >>, SelfLoop("a")},
        n \in 0..MaxCredentials, m \in 0..MaxUrls}

(* Catalog flows: processors of types that stand in one category of the   *)
(* catalog, in several, in none, or that only contain a catalog entry,    *)
(* and a scripted processor with or without a script body                 *)

T_UpdateAttribute == <<"U","p","d","a","t","e","A","t","t","r","i","b","u","t","e">>

T_GetHDFSSequenceFile == <<"o","r","g",".","a","p","a","c","h","e",".","n","i","f","i",".","p","r","o","c","e","s","s","o","r","s",".","h","a","d","o","o","p",".","G","e","t","H","D","F","S","S","e","q","u","e","n","c","e","F","i","l","e">>

T_LogAttribute == <<"L","o","g","A","t","t","r","i","b","u","t","e">>

T_JoltTransformJSON == <<"o","r","g",".","a","p","a","c","h","e",".","n","i","f","i",".","p","r","o","c","e","s","s","o","r","s",".","s","t","a","n","d","a","r","d",".","J","o","l","t","T","r","a","n","s","f","o","r","m","J","S","O","N">>

T_RouteOnAttribute == <<"R","o","u","t","e","O","n","A","t","t","r","i","b","u","t","e">>

T_InvokeScriptedProcessor == <<"I","n","v","o","k","e","S","c","r","i","p","t","e","d","P","r","o","c","e","s","s","o","r">>

MaxTyped == 2

CatalogTypes ==
    {T_GetFile, T_PutSQL, T_SendEmail, T_UpdateAttribute, T_GetHDFSSequenceFile,
     T_LogAttribute, T_JoltTransformJSON, T_RouteOnAttribute}

CatalogFlows ==
    {Flow([i \in DOMAIN types |->
              Processor("p" \o ToString(i), "P-" \o ToString(i), types[i],
                        "RUNNING", << >>, << >>, << >>)],
          << >>, << >>, << >>, << >>, << >>, << >>, << >>, << >>, << >>) :
        types \in SeqsUpTo(CatalogTypes, MaxTyped) \ {<< >>}}
    \cup
    {Flow(<<Processor("p1", "P-1", T_InvokeScriptedProcessor, "RUNNING", << >>,
                      Props(body, Absent), << >>),
            Processor("p2", "P-2", type, "RUNNING", << >>, << >>, << >>)>>,
          << >>, << >>, << >>, << >>, << >>, << >>, << >>, << >>, << >>) :
        body \in {Absent, V_Script, CNone}, type \in {T_GetFile, T_SendEmail}}

(* Order flows: processors that share an ID, lack a script or are        *)
(* disabled, with connections that loop on a processor or end nowhere    *)

MaxOrderConns == 2

OrderProcessors ==
    {<<PlainProcessor("a")>>,
     <<PlainProcessor("a"), PlainProcessor("a")>>,
     <<Processor("a", "P-a", T_ExecuteGroovyScript, "RUNNING", << >>, << >>, << >>)>>,
     <<Processor("a", "P-a", T_GetFile, "DISABLED", << >>, << >>, << >>),
       Processor("a", "P-s", T_ExecuteGroovyScript, "RUNNING", << >>,
                 Props(V_Blank, Absent), << >>)>>}

OrderFlows ==
    {Flow(processors, Connections(pairs),
          << >>, << >>, << >>, << >>, << >>, << >>, << >>, << >>) :
        processors \in OrderProcessors,
        pairs \in SeqsUpTo({<<"a", "a">>, <<"a", "x">>}, MaxOrderConns)}

----------------------------------------------------------------------------
(* Files and documents: what the entry point finds in the working directory *)

\* position of the last occurrence of character c in s, 0 when there is none
LastIndexOf(s, c) ==
    IF \E i \in DOMAIN s : s[i] = c
    THEN CHOOSE i \in DOMAIN s : s[i] = c /\ \A j \in (i + 1)..Len(s) : s[j] # c
    ELSE 0

\* os.path.splitext(p)[1]: from the last dot of the last path component on,
\* empty when that component has no dot or only leading dots
SplitExt(p) ==
    LET sep == LastIndexOf(p, "/")
        dot == LastIndexOf(p, ".")
    IN  IF dot > sep /\ \E j \in (sep + 1)..(dot - 1) : p[j] # "."
        THEN SubSeq(p, dot, Len(p))
        ELSE << >>

EXT_XML == <<".","x","m","l">>

EXT_JSON == <<".","j","s","o","n">>

ValueError(message) ==
    [kind |-> "ValueError", message |-> message,
     component_id |-> PyNone, component_name |-> PyNone]

OSError(message) ==
    [kind |-> "OSError", message |-> message,
     component_id |-> PyNone, component_name |-> PyNone]

\* a file named on the command line or found by the directory scan: whether
\* it exists when its turn comes, whether os.makedirs can create its
\* <base>_analysis directory, and what it holds
File(name, exists, dir_creatable, content) ==
    [name |-> name, exists |-> exists, dir_creatable |-> dir_creatable,
     content |-> content]

\* contents: a JSON text (the value json.loads returns), an XML text (its
\* root element), or a text that is neither
JsonText(raw_json) == [syntax |-> "json", raw_json |-> raw_json]

XmlText(root) == [syntax |-> "xml", root |-> root]

NoDocument == [syntax |-> "none"]

----------------------------------------------------------------------------
(* _parse_nifi_json *)

JSON_COMPONENT_TYPES ==
    <<"processors", "connections", "controllerServices", "inputPorts",
      "outputPorts", "funnels", "labels", "remoteProcessGroups", "templates">>

\* the key of parsed_flow a component type of the document is appended to
TargetKey(component_type) ==
    CASE component_type = "controllerServices" -> "controller_services"
      [] component_type = "inputPorts" -> "input_ports"
      [] component_type = "outputPorts" -> "output_ports"
      [] component_type = "remoteProcessGroups" -> "remote_process_groups"
      [] OTHER -> component_type

\* item["_parent_group_id"] = parent_id; item["_hierarchy_depth"] = depth
Stamp(item, parent_id, depth) ==
    [k \in DOMAIN item \cup {"_parent_group_id", "_hierarchy_depth"} |->
        IF k = "_parent_group_id" THEN parent_id
        ELSE IF k = "_hierarchy_depth" THEN depth
        ELSE item[k]]

\* the group dict once extract_recursive(group, parent_id, depth) has run
\* over it: its items carry parent_id, its nested groups have been visited
\* with this group's id as their parent_id
RECURSIVE StampGroup(_, _, _)
StampGroup(group, parent_id, depth) ==
    [k \in DOMAIN group |->
        IF k \in Range(JSON_COMPONENT_TYPES)
        THEN [j \in DOMAIN group[k] |-> Stamp(group[k][j], parent_id, depth)]
        ELSE IF k = "processGroups"
        THEN [j \in DOMAIN group[k] |->
                 Stamp(StampGroup(group[k][j], Get(group, "id", PyNone), depth + 1),
                       parent_id, depth)]
        ELSE group[k]]

\* what extract_recursive appends to parsed_flow[target_key] over a group:
\* the group's own items, then for every nested group the group itself
\* (under process_groups) and what its visit appends
\* only the group's own items are appended, nested groups are not visited
Extracted_OwnItemsOnly(group, target_key) ==
    Flatten([t \in DOMAIN JSON_COMPONENT_TYPES |->
        IF TargetKey(JSON_COMPONENT_TYPES[t]) = target_key
        THEN Get(group, JSON_COMPONENT_TYPES[t], << >>)
        ELSE << >>])
        \o (IF target_key = "process_groups"
            THEN Get(group, "processGroups", << >>) ELSE << >>)

RECURSIVE Extracted(_, _)
Extracted(group, target_key) ==
    LET own == Flatten([t \in DOMAIN JSON_COMPONENT_TYPES |->
                   IF TargetKey(JSON_COMPONENT_TYPES[t]) = target_key
                   THEN Get(group, JSON_COMPONENT_TYPES[t], << >>)
                   ELSE << >>])
        groups == Get(group, "processGroups", << >>)
    IN  own \o Flatten([j \in DOMAIN groups |->
                   (IF target_key = "process_groups" THEN <<groups[j]>> ELSE << >>)
                       \o Extracted(groups[j], target_key)])

parse_nifi_json(raw_json) ==
    LET flow == Get(raw_json, "flow", EmptyDict)
        root == StampGroup(flow, PyNone, 0)
    IN  [processors |-> Extracted(root, "processors"),
         connections |-> Extracted(root, "connections"),
         controller_services |-> Extracted(root, "controller_services"),
         process_groups |-> Extracted(root, "process_groups"),
         parameter_contexts |-> Get(flow, "parameterContexts", << >>),
         input_ports |-> Extracted(root, "input_ports"),
         output_ports |-> Extracted(root, "output_ports"),
         funnels |-> Extracted(root, "funnels"),
         labels |-> Extracted(root, "labels"),
         remote_process_groups |-> Extracted(root, "remote_process_groups"),
         templates |-> Extracted(root, "templates"),
         reporting_tasks |-> Get(flow, "reportingTasks", << >>),
         flow_file_queues |-> << >>]

----------------------------------------------------------------------------
(* _parse_nifi_xml and NiFiTemplateParser *)

\* an element of the tree ET.parse returns: its tag, its text (<< >> for
\* None, else <<the text>>) and its child elements in document order
Elem(tag, children) == [tag |-> tag, text |-> << >>, children |-> children]

TextElem(tag, text) == [tag |-> tag, text |-> <<text>>, children |-> << >>]

\* the None that elem.find returns
NoElement == [tag |-> PyNone, text |-> << >>, children |-> << >>]

\* elem.findall(tag): the children with the tag
ElemFindAll(elem, tag) == SelectSeq(elem.children, LAMBDA c : c.tag = tag)

\* elem.find(tag): the first child with the tag
ElemFind(elem, tag) ==
    IF Len(ElemFindAll(elem, tag)) > 0 THEN ElemFindAll(elem, tag)[1] ELSE NoElement

\* elem.findall('.//' + tag): the descendants with the tag, in document order
RECURSIVE Descendants(_, _)
Descendants(elem, tag) ==
    Flatten([i \in DOMAIN elem.children |->
        (IF elem.children[i].tag = tag THEN <<elem.children[i]>> ELSE << >>)
            \o Descendants(elem.children[i], tag)])

\* `child.text` is neither None nor empty
HasText(elem) == elem.text # << >> /\ Len(elem.text[1]) > 0

\* _get_text(elem, tag, default)
get_text(elem, tag, default) ==
    IF elem.tag = PyNone THEN default
    ELSE LET child == ElemFind(elem, tag)
         IN  IF child.tag # PyNone /\ HasText(child) THEN child.text[1] ELSE default

\* key_elem.text, value_elem.text
TextOrNone(elem) == IF elem.text = << >> THEN CNone ELSE elem.text[1]

RECURSIVE EntriesInto(_, _, _)
EntriesInto(properties, entries, skip_blank_keys) ==
    IF Len(entries) = 0 THEN properties
    ELSE LET key_elem == ElemFind(entries[1], "key")
             value_elem == ElemFind(entries[1], "value")
             value == IF value_elem.tag # PyNone THEN TextOrNone(value_elem) ELSE CNone
         IN  EntriesInto(
                 IF key_elem.tag # PyNone /\ (~skip_blank_keys \/ HasText(key_elem))
                 THEN ItemSet(properties, TextOrNone(key_elem), value)
                 ELSE properties,
                 Tail(entries), skip_blank_keys)

\* _parse_properties(props_elem)
parse_properties(props_elem) ==
    IF props_elem.tag = PyNone THEN << >>
    ELSE EntriesInto(<< >>, ElemFindAll(props_elem, "entry"), FALSE)

\* _parse_variables(vars_elem)
parse_variables(vars_elem) ==
    IF vars_elem.tag = PyNone THEN << >>
    ELSE EntriesInto(<< >>, ElemFindAll(vars_elem, "entry"), TRUE)

\* _parse_relationships(config): the auto-terminated relationships
parse_relationships(config) ==
    LET rels == SelectSeq(Descendants(config, "autoTerminate"), HasText)
    IN  [i \in DOMAIN rels |-> rels[i].text[1]]

\* the `relationships` list _parse_processor builds
ProcessorRelationships(proc) ==
    LET rels == SelectSeq(Descendants(proc, "relationships"),
                          LAMBDA rel : Len(get_text(rel, "name", "")) > 0)
    IN  [i \in DOMAIN rels |->
            [name |-> get_text(rels[i], "name", ""),
             autoTerminate |-> get_text(rels[i], "autoTerminate", "false") = "true"]]

\* _parse_processor(proc, group_id, depth)
parse_processor(proc, group_id, depth) ==
    LET config == ElemFind(proc, "config")
        config_data ==
            IF config.tag = PyNone THEN EmptyDict
            ELSE [schedulingPeriod |-> get_text(config, "schedulingPeriod", ""),
                  schedulingStrategy |-> get_text(config, "schedulingStrategy", ""),
                  concurrentlySchedulableTaskCount |->
                      get_text(config, "concurrentlySchedulableTaskCount", ""),
                  properties |-> parse_properties(ElemFind(config, "properties")),
                  autoTerminatedRelationships |-> parse_relationships(config)]
    IN  [id |-> get_text(proc, "id", ""),
         component |->
             [name |-> get_text(proc, "name", ""),
              type |-> get_text(proc, "type", << >>),
              state |-> get_text(proc, "state", "STOPPED"),
              config |-> config_data,
              relationships |-> ProcessorRelationships(proc)],
         _parent_group_id |-> group_id,
         _hierarchy_depth |-> depth]

\* _parse_connection(conn, group_id, depth)
parse_connection(conn, group_id, depth) ==
    LET source == ElemFind(conn, "source")
        destination == ElemFind(conn, "destination")
        selected == SelectSeq(Descendants(conn, "relationship"), HasText)
    IN  [id |-> get_text(conn, "id", ""),
         name |-> get_text(conn, "name", ""),
         sourceId |-> IF source.tag # PyNone THEN get_text(source, "id", "") ELSE PyNone,
         sourceType |-> IF source.tag # PyNone THEN get_text(source, "type", "") ELSE PyNone,
         destinationId |->
             IF destination.tag # PyNone THEN get_text(destination, "id", "") ELSE PyNone,
         destinationType |->
             IF destination.tag # PyNone THEN get_text(destination, "type", "") ELSE PyNone,
         selectedRelationships |-> [i \in DOMAIN selected |-> selected[i].text[1]],
         backPressureDataSizeThreshold |->
             PyStr(get_text(conn, "backPressureDataSizeThreshold", "")),
         backPressureObjectThreshold |->
             PyStr(get_text(conn, "backPressureObjectThreshold", "")),
         flowFileExpiration |-> get_text(conn, "flowFileExpiration", ""),
         _parent_group_id |-> group_id,
         _hierarchy_depth |-> depth]

\* _parse_controller_service(service)
parse_controller_service(service) ==
    [id |-> get_text(service, "id", ""),
     component |->
         [name |-> get_text(service, "name", ""),
          type |-> get_text(service, "type", << >>),
          state |-> get_text(service, "state", "DISABLED"),
          properties |-> parse_properties(ElemFind(service, "properties"))]]

\* _parse_port(port, group_id, depth, port_type)
parse_port(port, group_id, depth, port_type) ==
    [id |-> get_text(port, "id", ""),
     component |->
         [name |-> get_text(port, "name", ""), type |-> port_type,
          state |-> get_text(port, "state", "STOPPED")],
     _parent_group_id |-> group_id,
     _hierarchy_depth |-> depth]

\* _parse_funnel(funnel, group_id, depth)
parse_funnel(funnel, group_id, depth) ==
    [id |-> get_text(funnel, "id", ""),
     _parent_group_id |-> group_id,
     _hierarchy_depth |-> depth]

\* _parse_label(label, group_id, depth)
parse_label(label, group_id, depth) ==
    [id |-> get_text(label, "id", ""),
     component |->
         [label |-> get_text(label, "label", ""),
          width |-> get_text(label, "width", ""),
          height |-> get_text(label, "height", "")],
     _parent_group_id |-> group_id,
     _hierarchy_depth |-> depth]

\* _parse_remote_group(rpg, group_id, depth)
parse_remote_group(rpg, group_id, depth) ==
    [id |-> get_text(rpg, "id", ""),
     component |->
         [name |-> get_text(rpg, "name", "Unnamed"),
          targetUri |-> get_text(rpg, "targetUri", ""),
          communicationsTimeout |-> get_text(rpg, "communicationsTimeout", "30 sec")],
     _parent_group_id |-> group_id,
     _hierarchy_depth |-> depth]

\* the group_info _parse_process_group appends for a group
GroupInfo(group, parent_id, depth) ==
    [id |-> get_text(group, "id", ""),
     component |->
         [name |-> get_text(group, "name", "Unknown"),
          comments |-> get_text(group, "comments", "")],
     _parent_group_id |-> parent_id,
     _hierarchy_depth |-> depth,
     variables |-> parse_variables(ElemFind(group, "variables"))]

\* what a group's own contents add to one collection of the parser
OwnItems(contents, group_id, depth, collection) ==
    CASE collection = "processors" ->
             [i \in DOMAIN ElemFindAll(contents, "processors") |->
                 parse_processor(ElemFindAll(contents, "processors")[i], group_id, depth)]
      [] collection = "connections" ->
             [i \in DOMAIN ElemFindAll(contents, "connections") |->
                 parse_connection(ElemFindAll(contents, "connections")[i], group_id, depth)]
      [] collection = "input_ports" ->
             [i \in DOMAIN ElemFindAll(contents, "inputPorts") |->
                 parse_port(ElemFindAll(contents, "inputPorts")[i], group_id, depth, "input")]
      [] collection = "output_ports" ->
             [i \in DOMAIN ElemFindAll(contents, "outputPorts") |->
                 parse_port(ElemFindAll(contents, "outputPorts")[i], group_id, depth, "output")]
      [] collection = "funnels" ->
             [i \in DOMAIN ElemFindAll(contents, "funnels") |->
                 parse_funnel(ElemFindAll(contents, "funnels")[i], group_id, depth)]
      [] collection = "labels" ->
             [i \in DOMAIN ElemFindAll(contents, "labels") |->
                 parse_label(ElemFindAll(contents, "labels")[i], group_id, depth)]
      [] collection = "remote_process_groups" ->
             [i \in DOMAIN ElemFindAll(contents, "remoteProcessGroups") |->
                 parse_remote_group(ElemFindAll(contents, "remoteProcessGroups")[i],
                                    group_id, depth)]
      [] OTHER -> << >>

\* _parse_process_group(group, parent_id, depth): what the visit of a group
\* appends to one collection, the group itself first (process_groups), then
\* its contents, then the visits of its nested groups
RECURSIVE parse_process_group(_, _, _, _)
parse_process_group(group, parent_id, depth, collection) ==
    LET group_id == get_text(group, "id", "")
        contents == ElemFind(group, "contents")
    IN  (IF collection = "process_groups"
         THEN <<GroupInfo(group, parent_id, depth)>> ELSE << >>)
        \o (IF contents.tag = PyNone THEN << >>
            ELSE OwnItems(contents, group_id, depth, collection)
                 \o Flatten([i \in DOMAIN ElemFindAll(contents, "processGroups") |->
                        parse_process_group(ElemFindAll(contents, "processGroups")[i],
                                            group_id, depth + 1, collection)]))

\* parse_template(xml_file) for a root that has a snippet: to_dict()
parse_template(root) ==
    LET snippet == ElemFind(root, "snippet")
        groups == ElemFindAll(snippet, "processGroups")
        Collected(collection) ==
            Flatten([i \in DOMAIN groups |->
                parse_process_group(groups[i], PyNone, 0, collection)])
    IN  [processors |-> Collected("processors"),
         connections |-> Collected("connections"),
         controller_services |->
             [i \in DOMAIN ElemFindAll(snippet, "controllerServices") |->
                 parse_controller_service(ElemFindAll(snippet, "controllerServices")[i])],
         process_groups |-> Collected("process_groups"),
         input_ports |-> Collected("input_ports"),
         output_ports |-> Collected("output_ports"),
         funnels |-> Collected("funnels"),
         labels |-> Collected("labels"),
         remote_process_groups |-> Collected("remote_process_groups"),
         parameter_contexts |-> << >>,
         reporting_tasks |-> << >>,
         templates |-> << >>,
         flow_file_queues |-> << >>]

----------------------------------------------------------------------------
(* Output generation: _create_data_contract, _create_checklist *)

\* sum(len(v) for v in data.values() if isinstance(v, list))
RECURSIVE SumLens(_, _)
SumLens(d, keys) ==
    IF keys = {} THEN 0
    ELSE LET k == CHOOSE x \in keys : TRUE
         IN  (IF IsList(d[k]) THEN Len(d[k]) ELSE 0) + SumLens(d, keys \ {k})

TotalComponents(d) == SumLens(d, DOMAIN d)

\* _summarize_items(items)["by_severity"]
BySeverity(items) ==
    [sev \in {"HIGH", "MEDIUM", "LOW"} |->
        Len(SelectSeq(items, LAMBDA x : Get(x, "severity", "MEDIUM") = sev))]

\* [x for x in items if x.get("severity") == severity]
OfSeverity(items, severity) ==
    SelectSeq(items, LAMBDA x : Get(x, "severity", PyNone) = severity)

\* the contract without its generated identifiers and timestamps
create_data_contract(d, ws, security, performance, inventory) ==
    [metadata |->
         [contract_version |-> "2.2", validation_status |-> "PASSED",
          warnings |-> Len(ws), security_findings |-> Len(security)],
     components |->
         [processors |-> d["processors"], connections |-> d["connections"],
          controller_services |-> d["controller_services"],
          process_groups |-> d["process_groups"],
          parameter_contexts |-> d["parameter_contexts"],
          ports |-> [input |-> d["input_ports"], output |-> d["output_ports"]],
          other |-> [funnels |-> d["funnels"], labels |-> d["labels"],
                     remote_process_groups |-> d["remote_process_groups"]]],
     validation |->
         [schema |-> "PASSED", logic |-> "PASSED", integrity |-> "PASSED",
          warnings |-> ws, summary |-> BySeverity(ws)],
     security |-> [findings |-> security, summary |-> BySeverity(security)],
     performance |-> performance,
     statistics |->
         [total_components |-> TotalComponents(d),
          complexity_score |-> performance.flow_complexity.complexity_score,
          migration_readiness |-> calculate_migration_readiness(ws, security)],
     expression_inventory |-> inventory]

----------------------------------------------------------------------------
(* The checklist's helpers: the processor catalog, _assess_complexity,   *)
(* _categorize_processors, _extract_*, _generate_tasks, _find_unmapped   *)

\* the catalog in the order of its categories; a type may stand in several
NIFI_PROCESSOR_CATALOG ==
    <<
      [category |-> "ingestion",
       types |-> <<
           <<"G","e","t","F","i","l","e">>,
           <<"G","e","t","F","T","P">>,
           <<"G","e","t","S","F","T","P">>,
           <<"G","e","t","H","T","T","P">>,
           <<"G","e","t","J","M","S","Q","u","e","u","e">>,
           <<"G","e","t","J","M","S","T","o","p","i","c">>,
           <<"G","e","t","K","a","f","k","a">>,
           <<"G","e","t","M","o","n","g","o">>,
           <<"G","e","t","H","D","F","S">>,
           <<"G","e","t","H","B","a","s","e">>,
           <<"G","e","t","T","w","i","t","t","e","r">>,
           <<"G","e","t","S","Q","S">>,
           <<"G","e","t","G","C","S","O","b","j","e","c","t">>,
           <<"G","e","t","A","z","u","r","e","B","l","o","b","S","t","o","r","a","g","e">>,
           <<"G","e","t","A","z","u","r","e","D","a","t","a","L","a","k","e","S","t","o","r","a","g","e">>,
           <<"C","o","n","s","u","m","e","A","M","Q","P">>,
           <<"C","o","n","s","u","m","e","A","z","u","r","e","E","v","e","n","t","H","u","b">>,
           <<"C","o","n","s","u","m","e","E","W","S">>,
           <<"C","o","n","s","u","m","e","J","M","S">>,
           <<"C","o","n","s","u","m","e","K","a","f","k","a">>,
           <<"C","o","n","s","u","m","e","K","a","f","k","a","_","0","_","1","0">>,
           <<"C","o","n","s","u","m","e","K","a","f","k","a","_","0","_","1","1">>,
           <<"C","o","n","s","u","m","e","K","a","f","k","a","_","1","_","0">>,
           <<"C","o","n","s","u","m","e","K","a","f","k","a","_","2","_","0">>,
           <<"C","o","n","s","u","m","e","K","a","f","k","a","_","2","_","6">>,
           <<"C","o","n","s","u","m","e","K","a","f","k","a","R","e","c","o","r","d","_","0","_","1","0">>,
           <<"C","o","n","s","u","m","e","K","a","f","k","a","R","e","c","o","r","d","_","0","_","1","1">>,
           <<"C","o","n","s","u","m","e","K","a","f","k","a","R","e","c","o","r","d","_","1","_","0">>,
           <<"C","o","n","s","u","m","e","K","a","f","k","a","R","e","c","o","r","d","_","2","_","0">>,
           <<"C","o","n","s","u","m","e","K","a","f","k","a","R","e","c","o","r","d","_","2","_","6">>,
           <<"C","o","n","s","u","m","e","M","Q","T","T">>,
           <<"C","o","n","s","u","m","e","W","i","n","d","o","w","s","E","v","e","n","t","L","o","g">>,
           <<"F","e","t","c","h","D","i","s","t","r","i","b","u","t","e","d","M","a","p","C","a","c","h","e">>,
           <<"F","e","t","c","h","E","l","a","s","t","i","c","s","e","a","r","c","h">>,
           <<"F","e","t","c","h","F","i","l","e">>,
           <<"F","e","t","c","h","F","T","P">>,
           <<"F","e","t","c","h","G","C","S","O","b","j","e","c","t">>,
           <<"F","e","t","c","h","H","B","a","s","e","R","o","w">>,
           <<"F","e","t","c","h","H","D","F","S">>,
           <<"F","e","t","c","h","S","3","O","b","j","e","c","t">>,
           <<"F","e","t","c","h","S","F","T","P">>,
           <<"G","e","n","e","r","a","t","e","F","l","o","w","F","i","l","e">>,
           <<"G","e","n","e","r","a","t","e","T","a","b","l","e","F","e","t","c","h">>,
           <<"G","e","t","A","z","u","r","e","E","v","e","n","t","H","u","b">>,
           <<"G","e","t","C","o","u","c","h","b","a","s","e","K","e","y">>,
           <<"G","e","t","I","g","n","i","t","e","C","a","c","h","e">>,
           <<"G","e","t","S","o","l","r">>,
           <<"G","e","t","S","p","l","u","n","k">>,
           <<"I","n","v","o","k","e","H","T","T","P">>,
           <<"I","n","v","o","k","e","A","W","S","G","a","t","e","w","a","y","A","p","i">>,
           <<"L","i","s","t","e","n","B","e","a","t","s">>,
           <<"L","i","s","t","e","n","H","T","T","P">>,
           <<"L","i","s","t","e","n","R","E","L","P">>,
           <<"L","i","s","t","e","n","S","y","s","l","o","g">>,
           <<"L","i","s","t","e","n","T","C","P">>,
           <<"L","i","s","t","e","n","T","C","P","R","e","c","o","r","d">>,
           <<"L","i","s","t","e","n","U","D","P">>,
           <<"L","i","s","t","e","n","U","D","P","R","e","c","o","r","d">>,
           <<"L","i","s","t","D","a","t","a","b","a","s","e","T","a","b","l","e","s">>,
           <<"L","i","s","t","F","i","l","e">>,
           <<"L","i","s","t","F","T","P">>,
           <<"L","i","s","t","G","C","S","B","u","c","k","e","t">>,
           <<"L","i","s","t","H","D","F","S">>,
           <<"L","i","s","t","S","3">>,
           <<"L","i","s","t","S","F","T","P">>,
           <<"Q","u","e","r","y","C","a","s","s","a","n","d","r","a">>,
           <<"Q","u","e","r","y","D","a","t","a","b","a","s","e","T","a","b","l","e">>,
           <<"Q","u","e","r","y","D","a","t","a","b","a","s","e","T","a","b","l","e","R","e","c","o","r","d">>>>],
      [category |-> "egress",
       types |-> <<
           <<"P","u","t","F","i","l","e">>,
           <<"P","u","t","F","T","P">>,
           <<"P","u","t","S","F","T","P">>,
           <<"P","u","t","E","m","a","i","l">>,
           <<"P","u","t","S","Q","L">>,
           <<"P","u","t","H","B","a","s","e","J","S","O","N">>,
           <<"P","u","t","H","B","a","s","e","R","e","c","o","r","d">>,
           <<"P","u","t","H","D","F","S">>,
           <<"P","u","t","K","a","f","k","a">>,
           <<"P","u","t","K","a","f","k","a","R","e","c","o","r","d">>,
           <<"P","u","t","K","i","n","e","s","i","s","F","i","r","e","h","o","s","e">>,
           <<"P","u","t","K","i","n","e","s","i","s","S","t","r","e","a","m">>,
           <<"P","u","t","M","o","n","g","o">>,
           <<"P","u","t","M","o","n","g","o","R","e","c","o","r","d">>,
           <<"P","u","t","S","3","O","b","j","e","c","t">>,
           <<"P","u","t","S","N","S">>,
           <<"P","u","t","S","Q","S">>,
           <<"P","u","t","S","y","s","l","o","g">>,
           <<"P","u","t","A","z","u","r","e","B","l","o","b","S","t","o","r","a","g","e">>,
           <<"P","u","t","A","z","u","r","e","C","o","s","m","o","s","D","B","R","e","c","o","r","d">>,
           <<"P","u","t","A","z","u","r","e","D","a","t","a","L","a","k","e","S","t","o","r","a","g","e">>,
           <<"P","u","t","A","z","u","r","e","E","v","e","n","t","H","u","b">>,
           <<"P","u","t","B","o","x","F","i","l","e">>,
           <<"P","u","t","C","a","s","s","a","n","d","r","a","Q","L">>,
           <<"P","u","t","C","a","s","s","a","n","d","r","a","R","e","c","o","r","d">>,
           <<"P","u","t","C","l","o","u","d","W","a","t","c","h","M","e","t","r","i","c">>,
           <<"P","u","t","C","o","u","c","h","b","a","s","e","K","e","y">>,
           <<"P","u","t","D","a","t","a","b","a","s","e","R","e","c","o","r","d">>,
           <<"P","u","t","D","i","s","t","r","i","b","u","t","e","d","M","a","p","C","a","c","h","e">>,
           <<"P","u","t","D","r","u","i","d">>,
           <<"P","u","t","E","l","a","s","t","i","c","s","e","a","r","c","h">>,
           <<"P","u","t","E","l","a","s","t","i","c","s","e","a","r","c","h","H","t","t","p">>,
           <<"P","u","t","E","l","a","s","t","i","c","s","e","a","r","c","h","H","t","t","p","R","e","c","o","r","d">>,
           <<"P","u","t","E","l","a","s","t","i","c","s","e","a","r","c","h","R","e","c","o","r","d">>,
           <<"P","u","t","G","C","S","O","b","j","e","c","t">>,
           <<"P","u","t","G","o","o","g","l","e","D","r","i","v","e">>,
           <<"P","u","t","H","i","v","e","3","S","t","r","e","a","m","i","n","g">>,
           <<"P","u","t","H","i","v","e","Q","L">>,
           <<"P","u","t","H","i","v","e","S","t","r","e","a","m","i","n","g">>,
           <<"P","u","t","I","g","n","i","t","e","C","a","c","h","e">>,
           <<"P","u","t","I","n","f","l","u","x","D","B">>,
           <<"P","u","t","I","n","f","l","u","x","D","a","t","a","b","a","s","e","R","e","c","o","r","d">>,
           <<"P","u","t","J","M","S">>,
           <<"P","u","t","L","a","m","b","d","a">>,
           <<"P","u","t","O","R","C">>,
           <<"P","u","t","P","a","r","q","u","e","t">>,
           <<"P","u","t","R","i","e","m","a","n","n">>,
           <<"P","u","t","S","l","a","c","k">>,
           <<"P","u","t","S","o","l","r","C","o","n","t","e","n","t","S","t","r","e","a","m">>,
           <<"P","u","t","S","p","l","u","n","k">>,
           <<"P","u","t","T","C","P">>,
           <<"P","u","t","U","D","P">>,
           <<"P","u","b","l","i","s","h","A","M","Q","P">>,
           <<"P","u","b","l","i","s","h","G","C","P","u","b","S","u","b">>,
           <<"P","u","b","l","i","s","h","K","a","f","k","a">>,
           <<"P","u","b","l","i","s","h","K","a","f","k","a","_","0","_","1","0">>,
           <<"P","u","b","l","i","s","h","K","a","f","k","a","_","0","_","1","1">>,
           <<"P","u","b","l","i","s","h","K","a","f","k","a","_","1","_","0">>,
           <<"P","u","b","l","i","s","h","K","a","f","k","a","_","2","_","0">>,
           <<"P","u","b","l","i","s","h","K","a","f","k","a","_","2","_","6">>,
           <<"P","u","b","l","i","s","h","K","a","f","k","a","R","e","c","o","r","d">>,
           <<"P","u","b","l","i","s","h","K","a","f","k","a","R","e","c","o","r","d","_","0","_","1","0">>,
           <<"P","u","b","l","i","s","h","K","a","f","k","a","R","e","c","o","r","d","_","0","_","1","1">>,
           <<"P","u","b","l","i","s","h","K","a","f","k","a","R","e","c","o","r","d","_","1","_","0">>,
           <<"P","u","b","l","i","s","h","K","a","f","k","a","R","e","c","o","r","d","_","2","_","0">>,
           <<"P","u","b","l","i","s","h","K","a","f","k","a","R","e","c","o","r","d","_","2","_","6">>,
           <<"P","u","b","l","i","s","h","M","Q","T","T">>>>],
      [category |-> "routing",
       types |-> <<
           <<"R","o","u","t","e","O","n","A","t","t","r","i","b","u","t","e">>,
           <<"R","o","u","t","e","O","n","C","o","n","t","e","n","t">>,
           <<"R","o","u","t","e","T","e","x","t">>,
           <<"R","o","u","t","e","O","n","P","r","o","p","e","r","t","y">>,
           <<"D","i","s","t","r","i","b","u","t","e","L","o","a","d">>,
           <<"M","o","n","i","t","o","r","A","c","t","i","v","i","t","y">>,
           <<"C","o","n","t","r","o","l","R","a","t","e">>,
           <<"E","n","f","o","r","c","e","O","r","d","e","r">>,
           <<"N","o","t","i","f","y">>,
           <<"W","a","i","t">>,
           <<"R","o","u","t","e","A","v","r","o">>,
           <<"R","o","u","t","e","C","s","v">>,
           <<"R","o","u","t","e","H","L","7">>,
           <<"R","o","u","t","e","J","S","O","N">>,
           <<"R","o","u","t","e","X","M","L">>,
           <<"D","e","t","e","c","t","D","u","p","l","i","c","a","t","e">>,
           <<"H","a","s","h","C","o","n","t","e","n","t">>,
           <<"I","d","e","n","t","i","f","y","M","i","m","e","T","y","p","e">>>>],
      [category |-> "attributes",
       types |-> <<
           <<"U","p","d","a","t","e","A","t","t","r","i","b","u","t","e">>,
           <<"S","e","t","A","t","t","r","i","b","u","t","e">>,
           <<"R","e","m","o","v","e","R","e","c","o","r","d","F","i","e","l","d">>,
           <<"A","t","t","r","i","b","u","t","e","s","T","o","C","S","V">>,
           <<"A","t","t","r","i","b","u","t","e","s","T","o","J","S","O","N">>,
           <<"E","x","t","r","a","c","t","A","v","r","o","M","e","t","a","d","a","t","a">>,
           <<"E","x","t","r","a","c","t","C","C","D","A","A","t","t","r","i","b","u","t","e","s">>,
           <<"E","x","t","r","a","c","t","E","m","a","i","l","A","t","t","a","c","h","m","e","n","t","s">>,
           <<"E","x","t","r","a","c","t","E","m","a","i","l","H","e","a","d","e","r","s">>,
           <<"E","x","t","r","a","c","t","G","r","o","k">>,
           <<"E","x","t","r","a","c","t","H","L","7","A","t","t","r","i","b","u","t","e","s">>,
           <<"E","x","t","r","a","c","t","I","m","a","g","e","M","e","t","a","d","a","t","a">>,
           <<"E","x","t","r","a","c","t","M","e","d","i","a","M","e","t","a","d","a","t","a">>,
           <<"E","x","t","r","a","c","t","T","e","x","t">>>>],
      [category |-> "content_transform",
       types |-> <<
           <<"R","e","p","l","a","c","e","T","e","x","t">>,
           <<"R","e","p","l","a","c","e","T","e","x","t","W","i","t","h","M","a","p","p","i","n","g">>,
           <<"M","o","d","i","f","y","B","y","t","e","s">>,
           <<"A","p","p","e","n","d","C","o","n","t","e","n","t">>,
           <<"C","o","m","p","r","e","s","s","C","o","n","t","e","n","t">>,
           <<"U","n","p","a","c","k","C","o","n","t","e","n","t">>,
           <<"M","e","r","g","e","C","o","n","t","e","n","t">>,
           <<"M","e","r","g","e","R","e","c","o","r","d">>,
           <<"S","e","g","m","e","n","t","C","o","n","t","e","n","t">>,
           <<"S","p","l","i","t","C","o","n","t","e","n","t">>,
           <<"S","p","l","i","t","J","s","o","n">>,
           <<"S","p","l","i","t","R","e","c","o","r","d">>,
           <<"S","p","l","i","t","T","e","x","t">>,
           <<"S","p","l","i","t","X","m","l">>,
           <<"S","p","l","i","t","A","v","r","o">>,
           <<"S","c","a","n","C","o","n","t","e","n","t">>,
           <<"S","c","a","n","A","t","t","r","i","b","u","t","e">>,
           <<"E","n","c","r","y","p","t","C","o","n","t","e","n","t">>,
           <<"D","e","c","r","y","p","t","C","o","n","t","e","n","t">>,
           <<"B","a","s","e","6","4","E","n","c","o","d","e","C","o","n","t","e","n","t">>,
           <<"C","a","l","c","u","l","a","t","e","R","e","c","o","r","d","S","t","a","t","s">>,
           <<"C","o","n","v","e","r","t","C","h","a","r","a","c","t","e","r","S","e","t">>,
           <<"C","o","n","v","e","r","t","J","S","O","N","T","o","S","Q","L">>,
           <<"C","o","n","v","e","r","t","R","e","c","o","r","d">>,
           <<"E","x","e","c","u","t","e","S","t","r","e","a","m","C","o","m","m","a","n","d">>,
           <<"E","x","e","c","u","t","e","P","r","o","c","e","s","s">>,
           <<"F","o","r","k","R","e","c","o","r","d">>,
           <<"G","e","o","E","n","r","i","c","h","I","P">>,
           <<"G","e","o","E","n","r","i","c","h","I","P","R","e","c","o","r","d">>>>],
      [category |-> "scripting",
       types |-> <<
           <<"E","x","e","c","u","t","e","S","c","r","i","p","t">>,
           <<"E","x","e","c","u","t","e","G","r","o","o","v","y","S","c","r","i","p","t">>,
           <<"E","x","e","c","u","t","e","P","y","t","h","o","n">>,
           <<"I","n","v","o","k","e","S","c","r","i","p","t","e","d","P","r","o","c","e","s","s","o","r">>,
           <<"S","c","r","i","p","t","e","d","F","i","l","t","e","r","R","e","c","o","r","d">>,
           <<"S","c","r","i","p","t","e","d","L","o","o","k","u","p","S","e","r","v","i","c","e">>,
           <<"S","c","r","i","p","t","e","d","P","a","r","t","i","t","i","o","n","e","r">>,
           <<"S","c","r","i","p","t","e","d","R","e","a","d","e","r">>,
           <<"S","c","r","i","p","t","e","d","R","e","c","o","r","d","S","i","n","k">>,
           <<"S","c","r","i","p","t","e","d","T","r","a","n","s","f","o","r","m","R","e","c","o","r","d">>,
           <<"S","c","r","i","p","t","e","d","V","a","l","i","d","a","t","e","R","e","c","o","r","d">>,
           <<"S","c","r","i","p","t","e","d","W","r","i","t","e","r">>>>],
      [category |-> "format_conversion",
       types |-> <<
           <<"C","o","n","v","e","r","t","A","v","r","o","T","o","J","S","O","N">>,
           <<"C","o","n","v","e","r","t","A","v","r","o","T","o","O","R","C">>,
           <<"C","o","n","v","e","r","t","A","v","r","o","T","o","P","a","r","q","u","e","t">>,
           <<"C","o","n","v","e","r","t","A","v","r","o","S","c","h","e","m","a">>,
           <<"C","o","n","v","e","r","t","C","S","V","T","o","A","v","r","o">>,
           <<"C","o","n","v","e","r","t","E","x","c","e","l","T","o","C","S","V","P","r","o","c","e","s","s","o","r">>,
           <<"C","o","n","v","e","r","t","J","S","O","N","T","o","A","v","r","o">>,
           <<"C","o","n","v","e","r","t","J","S","O","N","T","o","S","Q","L">>,
           <<"C","o","n","v","e","r","t","R","e","c","o","r","d">>,
           <<"J","o","l","t","T","r","a","n","s","f","o","r","m","J","S","O","N">>,
           <<"J","o","l","t","T","r","a","n","s","f","o","r","m","R","e","c","o","r","d">>,
           <<"T","r","a","n","s","f","o","r","m","X","m","l">>,
           <<"V","a","l","i","d","a","t","e","J","s","o","n">>,
           <<"V","a","l","i","d","a","t","e","R","e","c","o","r","d">>,
           <<"V","a","l","i","d","a","t","e","X","m","l">>,
           <<"V","a","l","i","d","a","t","e","C","s","v">>>>],
      [category |-> "database",
       types |-> <<
           <<"C","o","n","v","e","r","t","J","S","O","N","T","o","S","Q","L">>,
           <<"E","x","e","c","u","t","e","S","Q","L">>,
           <<"E","x","e","c","u","t","e","S","Q","L","R","e","c","o","r","d">>,
           <<"G","e","n","e","r","a","t","e","T","a","b","l","e","F","e","t","c","h">>,
           <<"L","i","s","t","D","a","t","a","b","a","s","e","T","a","b","l","e","s">>,
           <<"P","u","t","D","a","t","a","b","a","s","e","R","e","c","o","r","d">>,
           <<"P","u","t","S","Q","L">>,
           <<"Q","u","e","r","y","C","a","s","s","a","n","d","r","a">>,
           <<"Q","u","e","r","y","D","a","t","a","b","a","s","e","T","a","b","l","e">>,
           <<"Q","u","e","r","y","D","a","t","a","b","a","s","e","T","a","b","l","e","R","e","c","o","r","d">>,
           <<"Q","u","e","r","y","S","o","l","r">>,
           <<"S","e","l","e","c","t","H","i","v","e","3","Q","L">>,
           <<"S","e","l","e","c","t","H","i","v","e","Q","L">>,
           <<"P","u","t","H","i","v","e","3","S","t","r","e","a","m","i","n","g">>,
           <<"P","u","t","H","i","v","e","Q","L">>,
           <<"P","u","t","H","i","v","e","S","t","r","e","a","m","i","n","g">>>>],
      [category |-> "record_processing",
       types |-> <<
           <<"C","o","n","v","e","r","t","R","e","c","o","r","d">>,
           <<"F","o","r","k","R","e","c","o","r","d">>,
           <<"J","o","l","t","T","r","a","n","s","f","o","r","m","R","e","c","o","r","d">>,
           <<"L","o","o","k","u","p","R","e","c","o","r","d">>,
           <<"M","e","r","g","e","R","e","c","o","r","d">>,
           <<"P","a","r","t","i","t","i","o","n","R","e","c","o","r","d">>,
           <<"P","u","t","D","a","t","a","b","a","s","e","R","e","c","o","r","d">>,
           <<"Q","u","e","r","y","R","e","c","o","r","d">>,
           <<"S","c","a","n","R","e","c","o","r","d">>,
           <<"S","c","r","i","p","t","e","d","T","r","a","n","s","f","o","r","m","R","e","c","o","r","d">>,
           <<"S","p","l","i","t","R","e","c","o","r","d">>,
           <<"U","p","d","a","t","e","R","e","c","o","r","d">>,
           <<"V","a","l","i","d","a","t","e","R","e","c","o","r","d">>,
           <<"C","a","l","c","u","l","a","t","e","R","e","c","o","r","d","S","t","a","t","s">>,
           <<"C","o","u","n","t","T","e","x","t">>,
           <<"E","v","a","l","u","a","t","e","J","s","o","n","P","a","t","h">>,
           <<"E","v","a","l","u","a","t","e","X","P","a","t","h">>,
           <<"E","v","a","l","u","a","t","e","X","Q","u","e","r","y">>>>],
      [category |-> "schema",
       types |-> <<
           <<"C","o","n","v","e","r","t","A","v","r","o","S","c","h","e","m","a">>,
           <<"I","n","f","e","r","A","v","r","o","S","c","h","e","m","a">>,
           <<"U","p","d","a","t","e","A","t","t","r","i","b","u","t","e">>,
           <<"E","x","t","r","a","c","t","A","v","r","o","M","e","t","a","d","a","t","a">>>>],
      [category |-> "cloud_services",
       types |-> <<
           <<"D","e","l","e","t","e","S","3","O","b","j","e","c","t">>,
           <<"F","e","t","c","h","S","3","O","b","j","e","c","t">>,
           <<"G","e","t","S","Q","S">>,
           <<"L","i","s","t","S","3">>,
           <<"P","u","t","C","l","o","u","d","W","a","t","c","h","M","e","t","r","i","c">>,
           <<"P","u","t","K","i","n","e","s","i","s","F","i","r","e","h","o","s","e">>,
           <<"P","u","t","K","i","n","e","s","i","s","S","t","r","e","a","m">>,
           <<"P","u","t","L","a","m","b","d","a">>,
           <<"P","u","t","S","3","O","b","j","e","c","t">>,
           <<"P","u","t","S","N","S">>,
           <<"P","u","t","S","Q","S">>,
           <<"T","a","g","S","3","O","b","j","e","c","t">>,
           <<"D","e","l","e","t","e","A","z","u","r","e","B","l","o","b","S","t","o","r","a","g","e">>,
           <<"D","e","l","e","t","e","A","z","u","r","e","D","a","t","a","L","a","k","e","S","t","o","r","a","g","e">>,
           <<"F","e","t","c","h","A","z","u","r","e","B","l","o","b","S","t","o","r","a","g","e">>,
           <<"F","e","t","c","h","A","z","u","r","e","D","a","t","a","L","a","k","e","S","t","o","r","a","g","e">>,
           <<"G","e","t","A","z","u","r","e","E","v","e","n","t","H","u","b">>,
           <<"L","i","s","t","A","z","u","r","e","B","l","o","b","S","t","o","r","a","g","e">>,
           <<"L","i","s","t","A","z","u","r","e","D","a","t","a","L","a","k","e","S","t","o","r","a","g","e">>,
           <<"P","u","t","A","z","u","r","e","B","l","o","b","S","t","o","r","a","g","e">>,
           <<"P","u","t","A","z","u","r","e","C","o","s","m","o","s","D","B","R","e","c","o","r","d">>,
           <<"P","u","t","A","z","u","r","e","D","a","t","a","L","a","k","e","S","t","o","r","a","g","e">>,
           <<"P","u","t","A","z","u","r","e","E","v","e","n","t","H","u","b">>,
           <<"D","e","l","e","t","e","G","C","S","O","b","j","e","c","t">>,
           <<"F","e","t","c","h","G","C","S","O","b","j","e","c","t">>,
           <<"G","e","t","G","C","S","O","b","j","e","c","t">>,
           <<"L","i","s","t","G","C","S","B","u","c","k","e","t">>,
           <<"P","u","t","G","C","S","O","b","j","e","c","t">>,
           <<"P","u","b","l","i","s","h","G","C","P","u","b","S","u","b">>,
           <<"P","u","t","G","o","o","g","l","e","D","r","i","v","e">>>>],
      [category |-> "data_quality",
       types |-> <<
           <<"D","e","t","e","c","t","D","u","p","l","i","c","a","t","e">>,
           <<"V","a","l","i","d","a","t","e","R","e","c","o","r","d">>,
           <<"V","a","l","i","d","a","t","e","J","s","o","n">>,
           <<"V","a","l","i","d","a","t","e","X","m","l">>,
           <<"V","a","l","i","d","a","t","e","C","s","v">>,
           <<"E","n","f","o","r","c","e","O","r","d","e","r">>,
           <<"H","a","s","h","C","o","n","t","e","n","t">>,
           <<"I","d","e","n","t","i","f","y","M","i","m","e","T","y","p","e">>,
           <<"S","c","a","n","C","o","n","t","e","n","t">>,
           <<"S","c","a","n","A","t","t","r","i","b","u","t","e">>,
           <<"V","e","r","i","f","y","C","o","n","t","e","n","t","M","A","C">>,
           <<"V","e","r","i","f","y","C","h","e","c","k","s","u","m">>>>],
      [category |-> "monitoring",
       types |-> <<
           <<"M","o","n","i","t","o","r","A","c","t","i","v","i","t","y">>,
           <<"N","o","t","i","f","y">>,
           <<"W","a","i","t">>,
           <<"P","u","t","S","l","a","c","k">>,
           <<"P","u","t","E","m","a","i","l">>,
           <<"L","o","g","A","t","t","r","i","b","u","t","e">>,
           <<"L","o","g","M","e","s","s","a","g","e">>,
           <<"A","t","t","r","i","b","u","t","e","R","o","l","l","i","n","g","W","i","n","d","o","w">>>>],
      [category |-> "network",
       types |-> <<
           <<"G","e","t","H","T","T","P">>,
           <<"I","n","v","o","k","e","H","T","T","P">>,
           <<"L","i","s","t","e","n","H","T","T","P">>,
           <<"P","o","s","t","H","T","T","P">>,
           <<"H","a","n","d","l","e","H","t","t","p","R","e","q","u","e","s","t">>,
           <<"H","a","n","d","l","e","H","t","t","p","R","e","s","p","o","n","s","e">>,
           <<"L","i","s","t","e","n","T","C","P">>,
           <<"L","i","s","t","e","n","T","C","P","R","e","c","o","r","d">>,
           <<"L","i","s","t","e","n","U","D","P">>,
           <<"L","i","s","t","e","n","U","D","P","R","e","c","o","r","d">>,
           <<"P","u","t","T","C","P">>,
           <<"P","u","t","U","D","P">>,
           <<"G","e","t","F","T","P">>,
           <<"G","e","t","S","F","T","P">>,
           <<"P","u","t","F","T","P">>,
           <<"P","u","t","S","F","T","P">>,
           <<"L","i","s","t","F","T","P">>,
           <<"L","i","s","t","S","F","T","P">>,
           <<"F","e","t","c","h","F","T","P">>,
           <<"F","e","t","c","h","S","F","T","P">>>>],
      [category |-> "specialized",
       types |-> <<
           <<"E","x","t","r","a","c","t","C","C","D","A","A","t","t","r","i","b","u","t","e","s">>,
           <<"E","x","t","r","a","c","t","H","L","7","A","t","t","r","i","b","u","t","e","s">>,
           <<"R","o","u","t","e","H","L","7">>,
           <<"E","x","t","r","a","c","t","G","r","o","k">>,
           <<"S","c","a","n","C","o","n","t","e","n","t">>,
           <<"S","c","a","n","A","t","t","r","i","b","u","t","e">>,
           <<"E","x","t","r","a","c","t","I","m","a","g","e","M","e","t","a","d","a","t","a">>,
           <<"E","x","t","r","a","c","t","M","e","d","i","a","M","e","t","a","d","a","t","a">>,
           <<"G","e","o","E","n","r","i","c","h","I","P">>,
           <<"G","e","o","E","n","r","i","c","h","I","P","R","e","c","o","r","d">>>>]
    >>

COMPLEXITY_PROCESSOR_THRESHOLD_LOW == 20

COMPLEXITY_PROCESSOR_THRESHOLD_MEDIUM == 50

COMPLEXITY_PROCESSOR_THRESHOLD_HIGH == 100

COMPLEXITY_SCRIPT_THRESHOLD_LOW == 5

COMPLEXITY_SCRIPT_THRESHOLD_MEDIUM == 10

COMPLEXITY_SCRIPT_THRESHOLD_HIGH == 20

SCRIPT_SIZE_THRESHOLD_MEDIUM == 200

SCRIPT_SIZE_THRESHOLD_HIGH == 500

M_Script == <<"S","c","r","i","p","t">>

M_Jolt == <<"J","o","l","t">>

M_SQL == <<"S","Q","L">>

M_Route == <<"R","o","u","t","e">>

\* proc.get("component", {}).get("type", default)
TypeOf(proc, default) == Get(Get(proc, "component", EmptyDict), "type", default)

\* proc_type.split(".")[-1]
ShortType(proc_type) ==
    SubSeq(proc_type, LastIndexOf(proc_type, ".") + 1, Len(proc_type))

assess_complexity(d) ==
    LET proc_count == Len(d["processors"])
        script_count ==
            Len(SelectSeq(d["processors"],
                          LAMBDA p : Contains(TypeOf(p, << >>), M_Script)))
    IN  IF \/ proc_count > COMPLEXITY_PROCESSOR_THRESHOLD_HIGH
           \/ script_count > COMPLEXITY_SCRIPT_THRESHOLD_HIGH
        THEN "VERY_HIGH"
        ELSE IF \/ proc_count > COMPLEXITY_PROCESSOR_THRESHOLD_MEDIUM
                \/ script_count > COMPLEXITY_SCRIPT_THRESHOLD_MEDIUM
        THEN "HIGH"
        ELSE IF \/ proc_count > COMPLEXITY_PROCESSOR_THRESHOLD_LOW
                \/ script_count > COMPLEXITY_SCRIPT_THRESHOLD_LOW
        THEN "MEDIUM"
        ELSE "LOW"

\* the category a processor is appended to: the loop over the catalog breaks
\* at the first category with `any(t in short_type for t in types)`
CategoryOf_LastMatch(short_type) ==
    IF \E k \in DOMAIN NIFI_PROCESSOR_CATALOG :
           ContainsAny(short_type, NIFI_PROCESSOR_CATALOG[k].types)
    THEN NIFI_PROCESSOR_CATALOG[
             CHOOSE k \in DOMAIN NIFI_PROCESSOR_CATALOG :
                 /\ ContainsAny(short_type, NIFI_PROCESSOR_CATALOG[k].types)
                 /\ \A m \in (k + 1)..Len(NIFI_PROCESSOR_CATALOG) :
                        ~ContainsAny(short_type, NIFI_PROCESSOR_CATALOG[m].types)
         ].category
    ELSE "uncategorized"

CategoryOf(short_type) ==
    IF \E k \in DOMAIN NIFI_PROCESSOR_CATALOG :
           ContainsAny(short_type, NIFI_PROCESSOR_CATALOG[k].types)
    THEN NIFI_PROCESSOR_CATALOG[
             CHOOSE k \in DOMAIN NIFI_PROCESSOR_CATALOG :
                 /\ ContainsAny(short_type, NIFI_PROCESSOR_CATALOG[k].types)
                 /\ \A m \in 1..(k - 1) :
                        ~ContainsAny(short_type, NIFI_PROCESSOR_CATALOG[m].types)
         ].category
    ELSE "uncategorized"

\* {"name": proc_name, "type": short_type}
CategoryEntry(proc) ==
    [name |-> Get(Get(proc, "component", EmptyDict), "name", "Unnamed"),
     type |-> ShortType(TypeOf(proc, << >>))]

\* dict(categories): the categories that received a processor, each with its
\* entries in processor order
categorize_processors(processors) ==
    LET category(i) == CategoryOf(ShortType(TypeOf(processors[i], << >>)))
    IN  [c \in {category(i) : i \in DOMAIN processors} |->
            Flatten([i \in DOMAIN processors |->
                IF category(i) = c THEN <<CategoryEntry(processors[i])>> ELSE << >>])]

\* len(script_body.splitlines()) for a text whose only line break is "\n"
SplitLines(s) ==
    Cardinality({i \in DOMAIN s : s[i] = "\n"})
        + (IF s # << >> /\ s[Len(s)] # "\n" THEN 1 ELSE 0)

TypeError ==
    [kind |-> "TypeError",
     message |-> "object of type 'NoneType' has no len()",
     component_id |-> PyNone, component_name |-> PyNone]

\* the script body _extract_scripts takes the length of
ScriptBodyOf(proc) ==
    ItemGet(AllProps(Get(proc, "component", EmptyDict)), SCRIPT_BODY, << >>)

\* len(None) in _extract_scripts
ExtractScriptsCrashes(processors) ==
    \E i \in DOMAIN processors :
        /\ Contains(TypeOf(processors[i], << >>), M_Script)
        /\ ScriptBodyOf(processors[i]) = CNone

extract_scripts(processors) ==
    Flatten([i \in DOMAIN processors |->
        LET component == Get(processors[i], "component", EmptyDict)
            script_body == ScriptBodyOf(processors[i])
        IN  IF Contains(TypeOf(processors[i], << >>), M_Script)
            THEN <<[name |-> Get(component, "name", PyNone),
                    type |-> TypeOf(processors[i], << >>),
                    engine |-> ItemGet(AllProps(component),
                                       <<"S","c","r","i","p","t"," ","E","n","g","i","n","e">>,
                                       CNone),
                    complexity |->
                        IF Len(script_body) > SCRIPT_SIZE_THRESHOLD_HIGH THEN "HIGH"
                        ELSE IF Len(script_body) > SCRIPT_SIZE_THRESHOLD_MEDIUM
                        THEN "MEDIUM" ELSE "LOW",
                    lines |-> SplitLines(script_body)]>>
            ELSE << >>])

\* _extract_transforms, _extract_sql, _extract_routing: the processors whose
\* type contains the marker
ExtractByMarker(processors, marker) ==
    Flatten([i \in DOMAIN processors |->
        LET component == Get(processors[i], "component", EmptyDict)
        IN  IF Contains(Get(component, "type", << >>), marker)
            THEN <<[name |-> Get(component, "name", PyNone),
                    type |-> Get(component, "type", CNone)]>>
            ELSE << >>])

generate_tasks ==
    <<
      [phase |-> "Pre-Migration", task |-> "Review data contract", status |-> "TODO"],
      [phase |-> "Pre-Migration", task |-> "Address security findings", status |-> "TODO"],
      [phase |-> "Design", task |-> "Map processors to Databricks", status |-> "TODO"],
      [phase |-> "Design", task |-> "Design workflow architecture", status |-> "TODO"],
      [phase |-> "Development", task |-> "Convert scripts", status |-> "TODO"],
      [phase |-> "Development", task |-> "Implement transformations", status |-> "TODO"],
      [phase |-> "Testing", task |-> "Unit testing", status |-> "TODO"],
      [phase |-> "Testing", task |-> "Integration testing", status |-> "TODO"],
      [phase |-> "Deployment", task |-> "Deploy to Databricks", status |-> "TODO"]
    >>

\* the set the sorted list of _find_unmapped is built from: the non-empty
\* short types that are no entry of the catalog
find_unmapped(processors) ==
    LET all_catalog == UNION {Range(NIFI_PROCESSOR_CATALOG[k].types) :
                                  k \in DOMAIN NIFI_PROCESSOR_CATALOG}
    IN  {ShortType(TypeOf(processors[i], << >>)) : i \in DOMAIN processors}
            \ (all_catalog \cup {<< >>})


\* the checklist without its timestamp
create_checklist(d, ws, security, performance) ==
    [summary |->
         [total_components |-> TotalComponents(d),
          critical_issues |-> Len(OfSeverity(ws, "HIGH"))
                              + Len(OfSeverity(security, "HIGH")),
          complexity |-> assess_complexity(d)],
     inventory |->
         [processors |-> categorize_processors(d["processors"]),
          connections |-> Len(d["connections"]),
          services |-> Len(d["controller_services"]),
          groups |-> Len(d["process_groups"])],
     validation |->
         [warnings |-> [sev \in {"HIGH", "MEDIUM", "LOW"} |-> OfSeverity(ws, sev)]],
     security |->
         [findings |-> [sev \in {"HIGH", "MEDIUM", "LOW"} |-> OfSeverity(security, sev)]],
     critical_components |->
         [scripts |-> extract_scripts(d["processors"]),
          transforms |-> ExtractByMarker(d["processors"], M_Jolt),
          sql_queries |-> ExtractByMarker(d["processors"], M_SQL),
          routing |-> ExtractByMarker(d["processors"], M_Route)],
     performance |-> performance,
     migration_tasks |-> generate_tasks,
     unmapped_processors |-> find_unmapped(d["processors"])]

\* os.path.splitext(os.path.basename(input_file))[0] + "_analysis"
OutputDir(name) ==
    LET base == SubSeq(name, LastIndexOf(name, "/") + 1, Len(name))
        ext == SplitExt(base)
    IN  SubSeq(base, 1, Len(base) - Len(ext))
            \o <<"_","a","n","a","l","y","s","i","s">>

\* a file written into an output directory while an input file is processed
Artifact(index, dir, name) == [written_by |-> index, dir |-> dir, name |-> name]

----------------------------------------------------------------------------
(* The run: the batch loop of the entry point and ingestion_agent_run *)

(* Nested documents: a chain of process groups under the root group, the *)
(* processors and connections in the innermost one, and empty groups     *)
(* beside the chain                                                      *)

MaxNesting == 7

MaxSiblings == 11

MaxManyProcs == 21

MaxManyConns == 18

JsonGroup(id, processors, connections, process_groups) ==
    [id |-> id, name |-> "G-" \o id, processors |-> processors,
     connections |-> connections, processGroups |-> process_groups]

\* the group at a level of the chain: level 0 is the root group
RECURSIVE GroupChain(_, _, _, _, _)
GroupChain(level, nesting, siblings, processors, connections) ==
    JsonGroup(IF level = 0 THEN "root" ELSE "g" \o ToString(level),
              IF level = nesting THEN processors ELSE << >>,
              IF level = nesting THEN connections ELSE << >>,
              (IF level < nesting
               THEN <<GroupChain(level + 1, nesting, siblings, processors,
                                 connections)>>
               ELSE << >>)
              \o (IF level = 0
                  THEN [i \in 1..siblings |->
                           JsonGroup("e" \o ToString(i), << >>, << >>, << >>)]
                  ELSE << >>))

\* p1, p2, ... and the connections k1, k2, ... from p1 to p2 (to p1 itself
\* when it is alone)
ManyProcessors(n) == [i \in 1..n |-> PlainProcessor("p" \o ToString(i))]

ManyConnections(n, procs) ==
    [i \in 1..n |-> Connection("k" \o ToString(i), "", "p1",
                               IF procs > 1 THEN "p2" ELSE "p1")]

NestedJson(nesting, siblings, procs, conns) ==
    JsonText([flow |-> GroupChain(0, nesting, siblings, ManyProcessors(procs),
                                  ManyConnections(conns, procs))])

\* sizes around the points where the terms of the complexity score reach
\* their caps
NestedDocuments ==
    {NestedJson(nesting, siblings, procs, conns) :
        nesting \in {0, 1, MaxNesting - 1, MaxNesting},
        siblings \in {0, 4, MaxSiblings},
        procs \in {0, 1, MaxManyProcs - 2, MaxManyProcs},
        conns \in {0, 1, MaxManyConns - 2, MaxManyConns}}

(* Hoist documents: a chain of groups under the root group, each level    *)
(* with or without one component of every kind                           *)

MaxHoistDepth == 2

\* a group holding, when with_items, one component of every kind, named
\* after the kind and the level
FullGroup(level, with_items, process_groups) ==
    LET n == ToString(level)
        one(id) == IF with_items THEN <<Comp(id \o n)>> ELSE << >>
    IN  JsonGroup(IF level = 0 THEN "root" ELSE "g" \o n,
                  IF with_items THEN <<PlainProcessor("p" \o n)>> ELSE << >>,
                  IF with_items
                  THEN <<Connection("k" \o n, "", "p" \o n, "p" \o n)>>
                  ELSE << >>,
                  process_groups)
        @@ [controllerServices |-> one("s"), inputPorts |-> one("i"),
            outputPorts |-> one("o"), funnels |-> one("f"),
            labels |-> one("l"), remoteProcessGroups |-> one("r")]

RECURSIVE FullChain(_, _)
FullChain(level, with_items) ==
    FullGroup(level, with_items[level],
              IF level + 1 \in DOMAIN with_items
              THEN <<FullChain(level + 1, with_items)>>
              ELSE << >>)

HoistDocuments ==
    {JsonText([flow |-> FullChain(0, with_items)]) :
        with_items \in UNION {[0..n -> BOOLEAN] : n \in 0..MaxHoistDepth}}

(* Logical flows: a forest of process groups with their processors and   *)
(* connections, and its two encodings, the JSON document and the XML     *)
(* template                                                              *)

LogicalConnection(id, source_id, dest_id, object_threshold, size_threshold) ==
    [id |-> id, source_id |-> source_id, dest_id |-> dest_id,
     object_threshold |-> object_threshold, size_threshold |-> size_threshold]

LogicalGroup(id, processors, connections, groups) ==
    [id |-> id, processors |-> processors, connections |-> connections,
     groups |-> groups]

JsonConnection(c) ==
    Connection(c.id, "", c.source_id, c.dest_id)
        @@ [backPressureObjectThreshold |-> PyInt(c.object_threshold),
            backPressureDataSizeThreshold |-> PyStr(c.size_threshold)]

RECURSIVE JsonOfGroup(_)
JsonOfGroup(g) ==
    JsonGroup(g.id,
              [i \in DOMAIN g.processors |-> PlainProcessor(g.processors[i])],
              [i \in DOMAIN g.connections |-> JsonConnection(g.connections[i])],
              [i \in DOMAIN g.groups |-> JsonOfGroup(g.groups[i])])

\* the JSON document: the top-level groups under the root group
EncodeJson(groups) ==
    JsonText([flow |-> JsonGroup("root", << >>, << >>,
                                 [i \in DOMAIN groups |-> JsonOfGroup(groups[i])])])

XmlProcessor(id) ==
    Elem("processors",
         <<TextElem("id", id), TextElem("name", "P-" \o id),
           TextElem("type", T_GetFile), TextElem("state", "RUNNING"),
           Elem("config", <<Elem("properties", << >>)>>)>>)

XmlConnection(c) ==
    Elem("connections",
         <<TextElem("id", c.id),
           Elem("source", <<TextElem("id", c.source_id), TextElem("type", "PROCESSOR")>>),
           Elem("destination", <<TextElem("id", c.dest_id), TextElem("type", "PROCESSOR")>>),
           TextElem("backPressureObjectThreshold", ToString(c.object_threshold)),
           TextElem("backPressureDataSizeThreshold", c.size_threshold)>>)

RECURSIVE XmlOfGroup(_)
XmlOfGroup(g) ==
    Elem("processGroups",
         <<TextElem("id", g.id), TextElem("name", "G-" \o g.id),
           Elem("contents",
                [i \in DOMAIN g.processors |-> XmlProcessor(g.processors[i])]
                \o [i \in DOMAIN g.connections |-> XmlConnection(g.connections[i])]
                \o [i \in DOMAIN g.groups |-> XmlOfGroup(g.groups[i])])>>)

\* the XML template: the top-level groups under the snippet
EncodeXml(groups) ==
    XmlText(Elem("template",
                 <<TextElem("name", "flow"),
                   Elem("snippet", [i \in DOMAIN groups |-> XmlOfGroup(groups[i])])>>))

(* Backpressure flows: two processors in one group and one or two         *)
(* connections between them, each with its two thresholds                 *)

MaxThresholdConns == 2

ObjectThresholds == {0, 10000}

SizeThresholds == {"0 MB", "1 GB", "0 GB", "0MB"}

BackpressureFlows ==
    {<<LogicalGroup("g1", <<"p1", "p2">>,
                    [i \in DOMAIN limits |->
                        LogicalConnection("k" \o ToString(i), "p1", "p2",
                                          limits[i][1], limits[i][2])],
                    << >>)>> :
        limits \in SeqsUpTo(ObjectThresholds \X SizeThresholds, MaxThresholdConns) \ {<< >>}}

(* Group trees: a chain of nested groups, each level with or without a    *)
(* processor of its own, alone or beside a second top-level group         *)

MaxGroupDepth == 3

RECURSIVE ChainOfGroups(_, _)
ChainOfGroups(level, with_processor) ==
    LogicalGroup("g" \o ToString(level),
                 IF with_processor[level] THEN <<"p" \o ToString(level)>> ELSE << >>,
                 IF with_processor[level]
                 THEN <<LogicalConnection("k" \o ToString(level),
                                          "p" \o ToString(level), "p" \o ToString(level),
                                          10000, "1 GB")>>
                 ELSE << >>,
                 IF level < Len(with_processor)
                 THEN <<ChainOfGroups(level + 1, with_processor)>>
                 ELSE << >>)

GroupTrees ==
    {<<ChainOfGroups(1, with_processor)>> \o beside :
        with_processor \in UNION {[1..n -> BOOLEAN] : n \in 1..MaxGroupDepth},
        beside \in {<< >>, <<LogicalGroup("h1", <<"q1">>, << >>, << >>)>>}}

LogicalFlows == BackpressureFlows \cup GroupTrees

F_flow_xml == <<"f","l","o","w",".","x","m","l">>

F_flow_json == <<"f","l","o","w",".","j","s","o","n">>

\* the JSON document whose root group holds the collections of a flow
FlatJson(flow) ==
    JsonText([flow |->
        [id |-> "root", name |-> "flow",
         processors |-> flow["processors"],
         connections |-> flow["connections"],
         controllerServices |-> flow["controller_services"],
         processGroups |-> flow["process_groups"],
         inputPorts |-> flow["input_ports"],
         outputPorts |-> flow["output_ports"],
         funnels |-> flow["funnels"],
         labels |-> flow["labels"],
         remoteProcessGroups |-> flow["remote_process_groups"],
         parameterContexts |-> flow["parameter_contexts"]]])

\* one file, named on the command line, holding the flow as JSON
OneJsonFile(flow) == <<File(F_flow_json, TRUE, TRUE, FlatJson(flow))>>

(* Files: what may stand on the command line or in the scanned directory *)

F_ok_json == <<"o","k",".","j","s","o","n">>

F_dup_json == <<"d","u","p",".","j","s","o","n">>

F_gone_json == <<"g","o","n","e",".","j","s","o","n">>

F_notes_txt == <<"n","o","t","e","s",".","t","x","t">>

F_bad_json == <<"b","a","d",".","j","s","o","n">>

F_bad_xml == <<"b","a","d",".","x","m","l">>

F_other_xml == <<"o","t","h","e","r",".","x","m","l">>

F_bare_xml == <<"b","a","r","e",".","x","m","l">>

F_ok_xml == <<"o","k",".","x","m","l">>

F_held_json == <<"h","e","l","d",".","j","s","o","n">>

F_UP_JSON == <<"U","P",".","J","S","O","N">>

F_UP_Xml == <<"U","P",".","X","m","l">>

F_a_json_bak == <<"a",".","j","s","o","n",".","b","a","k">>

F_flow == <<"f","l","o","w">>

\* a flow that passes every stage, in its two encodings
SoundJson == EncodeJson(<<LogicalGroup("g1", <<"p1">>, << >>, << >>)>>)

SoundXml == EncodeXml(<<LogicalGroup("g1", <<"p1">>, << >>, << >>)>>)

\* a document whose two processors share an ID
DuplicateJson == FlatJson(Flow(<<PlainProcessor("a"), PlainProcessor("a")>>,
                               << >>, << >>, << >>, << >>, << >>, << >>, << >>,
                               << >>, << >>))

\* files that fail or succeed in every way the entry point distinguishes
BatchFiles ==
    {File(F_ok_json, TRUE, TRUE, SoundJson),
     File(F_ok_xml, TRUE, TRUE, SoundXml),
     File(F_dup_json, TRUE, TRUE, DuplicateJson),
     File(F_gone_json, FALSE, TRUE, SoundJson),
     File(F_bad_xml, TRUE, TRUE, NoDocument),
     File(F_held_json, TRUE, FALSE, SoundJson)}

\* files named on the command line
SingleFiles ==
    BatchFiles \cup
    {File(F_bad_json, TRUE, TRUE, NoDocument),
     File(F_other_xml, TRUE, TRUE, XmlText(Elem("flowController", << >>))),
     File(F_bare_xml, TRUE, TRUE, XmlText(Elem("template", <<TextElem("name", "flow")>>))),
     File(F_UP_JSON, TRUE, TRUE, SoundJson),
     File(F_UP_Xml, TRUE, TRUE, SoundXml),
     File(F_notes_txt, TRUE, TRUE, SoundJson),
     File(F_notes_txt, TRUE, TRUE, NoDocument),
     File(F_a_json_bak, TRUE, TRUE, SoundJson),
     File(F_flow, TRUE, TRUE, SoundXml)}

MaxFiles == 3

\* the directory scan: files of distinct names, in the order of os.listdir
Batches ==
    {files \in SeqsUpTo(BatchFiles, MaxFiles) :
        /\ Len(files) >= 2
        /\ \A i, j \in DOMAIN files : i # j => files[i].name # files[j].name}

NoFlow == EmptyDict

Init ==
    /\ \/ \E flow \in GraphFlows : input_files = OneJsonFile(flow)
       \/ \E flow \in EndpointFlows : input_files = OneJsonFile(flow)
       \/ \E flow \in IntegrityFlows : input_files = OneJsonFile(flow)
       \/ \E flow \in OneProcessorFlows : input_files = OneJsonFile(flow)
       \/ \E flow \in TwoProcessorFlows : input_files = OneJsonFile(flow)
       \/ \E flow \in ParameterFlows : input_files = OneJsonFile(flow)
       \/ \E flow \in SecurityFlows : input_files = OneJsonFile(flow)
       \/ \E flow \in ReadinessFlows : input_files = OneJsonFile(flow)
       \/ \E flow \in CatalogFlows : input_files = OneJsonFile(flow)
       \/ \E flow \in OrderFlows : input_files = OneJsonFile(flow)
       \/ \E doc \in NestedDocuments \cup HoistDocuments :
              input_files = <<File(F_flow_json, TRUE, TRUE, doc)>>
       \/ \E file \in SingleFiles : input_files = <<file>>
       \/ input_files \in Batches
       \/ \E groups \in LogicalFlows :
              \/ input_files = <<File(F_flow_json, TRUE, TRUE, EncodeJson(groups))>>
              \/ input_files = <<File(F_flow_xml, TRUE, TRUE, EncodeXml(groups))>>
    /\ file_index = 1
    /\ success_count = 0
    /\ failure_count = 0
    /\ outputs = {}
    /\ pc = "next_file"
    /\ opened = FALSE
    /\ data = NoFlow
    /\ connection_graph = EmptyGraph
    /\ warnings = << >>
    /\ validation_warnings = << >>
    /\ security_findings = << >>
    /\ performance_analysis = EmptyDict
    /\ expression_inventory = EmptyDict
    /\ data_contract = EmptyDict
    /\ checklist = EmptyDict
    /\ error = NoError
    /\ raised_in = ""

\* the exception is recorded and the outputs are saved all the same
Raise_ThenSave(e) ==
    /\ pc' = "save_contract"
    /\ error' = e
    /\ raised_in' = pc
    /\ connection_graph' = EmptyGraph
    /\ warnings' = << >>

\* an exception leaves the step at pc: the locals of _validate_all are gone
Raise(e) ==
    /\ pc' = "failed"
    /\ error' = e
    /\ raised_in' = pc
    /\ connection_graph' = EmptyGraph
    /\ warnings' = << >>

\* the head of `for input_file in input_files` up to the call of
\* ingestion_agent_run: the existence test and os.makedirs, which is
\* outside the try block; after the last file, the summary and sys.exit
NextFile ==
    /\ pc = "next_file"
    /\ IF file_index > Len(input_files)
       THEN /\ pc' = "exit"
            /\ UNCHANGED <<file_index, failure_count, error, raised_in>>
       ELSE IF ~input_files[file_index].exists
       THEN /\ failure_count' = failure_count + 1
            /\ file_index' = file_index + 1
            /\ UNCHANGED <<pc, error, raised_in>>
       ELSE IF ~input_files[file_index].dir_creatable
       THEN /\ pc' = "crashed"
            /\ error' = OSError("os.makedirs failed")
            /\ raised_in' = pc
            /\ UNCHANGED <<file_index, failure_count>>
       ELSE /\ pc' = "detect_format"
            /\ error' = NoError
            /\ raised_in' = ""
            /\ UNCHANGED <<file_index, failure_count>>
    /\ opened' = FALSE
    /\ data' = NoFlow
    /\ connection_graph' = EmptyGraph
    /\ warnings' = << >>
    /\ validation_warnings' = << >>
    /\ security_findings' = << >>
    /\ performance_analysis' = EmptyDict
    /\ expression_inventory' = EmptyDict
    /\ data_contract' = EmptyDict
    /\ checklist' = EmptyDict
    /\ UNCHANGED <<input_files, success_count, outputs>>

\* the detection with the JSON loader as the default
DetectFormat_DefaultsToJson ==
    /\ pc = "detect_format"
    /\ pc' = IF Lower(SplitExt(input_files[file_index].name)) = EXT_XML
             THEN "parse_xml" ELSE "parse_json"
    /\ UNCHANGED <<error, raised_in, connection_graph, warnings>>
    /\ UNCHANGED <<batch_vars, opened, data, validation_warnings>>
    /\ UNCHANGED analysis_vars

\* os.path.splitext(input_file)[1].lower() and the choice of the loader
DetectFormat ==
    /\ pc = "detect_format"
    /\ LET file_ext == Lower(SplitExt(input_files[file_index].name))
       IN  IF file_ext = EXT_XML
           THEN /\ pc' = "parse_xml"
                /\ UNCHANGED <<error, raised_in, connection_graph, warnings>>
           ELSE IF file_ext = EXT_JSON
           THEN /\ pc' = "parse_json"
                /\ UNCHANGED <<error, raised_in, connection_graph, warnings>>
           ELSE Raise(ValueError(<<"Unsupported file format '", file_ext,
                                   "'. Must be .json or .xml">>))
    /\ UNCHANGED <<batch_vars, opened, data, validation_warnings>>
    /\ UNCHANGED analysis_vars

\* _parse_nifi_xml: the file is read, ET.parse, NiFiTemplateParser
ParseXml ==
    /\ pc = "parse_xml"
    /\ opened' = TRUE
    /\ LET content == input_files[file_index].content
       IN  IF content.syntax # "xml"
           THEN /\ Raise(FlowValidationError("XML parsing failed", PyNone, PyNone))
                /\ UNCHANGED data
           ELSE IF content.root.tag # "template"
           THEN /\ Raise(ValueError("Unsupported XML format. Root element: "
                                    \o content.root.tag))
                /\ UNCHANGED data
           ELSE IF ElemFind(content.root, "snippet").tag = PyNone
           THEN /\ Raise(ValueError("No snippet element found in template"))
                /\ UNCHANGED data
           ELSE /\ data' = parse_template(content.root)
                /\ pc' = "validate_schema"
                /\ UNCHANGED <<error, raised_in, connection_graph, warnings>>
    /\ UNCHANGED <<batch_vars, validation_warnings>>
    /\ UNCHANGED analysis_vars

\* _parse_nifi_json: the file is read, json.loads, extract_recursive
ParseJson ==
    /\ pc = "parse_json"
    /\ opened' = TRUE
    /\ LET content == input_files[file_index].content
       IN  IF content.syntax # "json"
           THEN /\ Raise(FlowValidationError("JSON parsing failed", PyNone, PyNone))
                /\ UNCHANGED data
           ELSE /\ data' = parse_nifi_json(content.raw_json)
                /\ pc' = "validate_schema"
                /\ UNCHANGED <<error, raised_in, connection_graph, warnings>>
    /\ UNCHANGED <<batch_vars, validation_warnings>>
    /\ UNCHANGED analysis_vars

ValidateSchema ==
    /\ pc = "validate_schema"
    /\ LET e == validate_schema_and_structure(data)
       IN  IF e.kind # "none" THEN Raise(e)
           ELSE /\ pc' = "validate_connections"
                /\ UNCHANGED <<connection_graph, warnings, error, raised_in>>
    /\ UNCHANGED <<batch_vars, opened, data, validation_warnings>>
    /\ UNCHANGED analysis_vars

ValidateConnections ==
    /\ pc = "validate_connections"
    /\ LET r == ConnectionLoop(data["connections"], 1,
                               collect_all_valid_ids(data), EmptyGraph)
       IN  IF r.error.kind # "none" THEN Raise(r.error)
           ELSE /\ pc' = "detect_cycles"
                /\ connection_graph' = r.graph
                /\ UNCHANGED <<warnings, error, raised_in>>
    /\ UNCHANGED <<batch_vars, opened, data, validation_warnings>>
    /\ UNCHANGED analysis_vars

DetectCycles ==
    /\ pc = "detect_cycles"
    /\ warnings' = warnings \o CycleWarnings(detect_cycles(connection_graph))
    /\ pc' = "validate_processors"
    /\ UNCHANGED <<batch_vars, opened, data, connection_graph,
                   validation_warnings, error, raised_in>>
    /\ UNCHANGED analysis_vars

ValidateProcessors ==
    /\ pc = "validate_processors"
    /\ LET r == ProcessorLoop(data["processors"], 1, connection_graph, warnings)
       IN  IF r.error.kind # "none" THEN Raise(r.error)
           ELSE /\ pc' = "validate_parameters"
                /\ warnings' = r.warnings
                /\ UNCHANGED <<connection_graph, error, raised_in>>
    /\ UNCHANGED <<batch_vars, opened, data, validation_warnings>>
    /\ UNCHANGED analysis_vars

ValidateParameters ==
    /\ pc = "validate_parameters"
    /\ warnings' = warnings \o
           ParameterLoop(data["processors"], 1,
                         DefinedParams(data["parameter_contexts"]))
    /\ connection_graph' = EmptyGraph
    /\ pc' = "validate_integrity"
    /\ UNCHANGED <<batch_vars, opened, data, validation_warnings, error, raised_in>>
    /\ UNCHANGED analysis_vars

ValidateIntegrity ==
    /\ pc = "validate_integrity"
    /\ LET e == validate_integrity(data)
       IN  IF e.kind # "none" THEN Raise(e) /\ UNCHANGED validation_warnings
           ELSE /\ pc' = "validated"
                /\ validation_warnings' = warnings
                /\ UNCHANGED <<connection_graph, warnings, error, raised_in>>
    /\ UNCHANGED <<batch_vars, opened, data>>
    /\ UNCHANGED analysis_vars

SecurityAudit ==
    /\ pc = "validated"
    /\ security_findings' = security_audit(data)
    /\ pc' = "analyze_performance"
    /\ UNCHANGED <<batch_vars, opened, data, connection_graph, warnings,
                   validation_warnings, performance_analysis,
                   expression_inventory, data_contract, checklist, error,
                   raised_in>>

AnalyzePerformance ==
    /\ pc = "analyze_performance"
    /\ performance_analysis' = analyze_performance(data)
    /\ pc' = "analyze_expressions"
    /\ UNCHANGED <<batch_vars, opened, data, connection_graph, warnings,
                   validation_warnings, security_findings,
                   expression_inventory, data_contract, checklist, error,
                   raised_in>>

\* the stage empties the processors of the model it was given
AnalyzeExpressions_ConsumesProcessors ==
    /\ pc = "analyze_expressions"
    /\ expression_inventory' = analyze_expressions(data)
    /\ data' = [data EXCEPT !["processors"] = << >>]
    /\ pc' = "create_data_contract"
    /\ UNCHANGED <<batch_vars, opened, connection_graph, warnings,
                   validation_warnings, security_findings,
                   performance_analysis, data_contract, checklist, error,
                   raised_in>>

AnalyzeExpressions ==
    /\ pc = "analyze_expressions"
    /\ expression_inventory' = analyze_expressions(data)
    /\ pc' = "create_data_contract"
    /\ UNCHANGED <<batch_vars, opened, data, connection_graph, warnings,
                   validation_warnings, security_findings,
                   performance_analysis, data_contract, checklist, error,
                   raised_in>>

CreateDataContract ==
    /\ pc = "create_data_contract"
    /\ data_contract' =
           create_data_contract(data, validation_warnings, security_findings,
                                performance_analysis, expression_inventory)
    /\ pc' = "create_checklist"
    /\ UNCHANGED <<batch_vars, opened, data, connection_graph, warnings,
                   validation_warnings, security_findings,
                   performance_analysis, expression_inventory, checklist,
                   error, raised_in>>

CreateChecklist ==
    /\ pc = "create_checklist"
    /\ IF ExtractScriptsCrashes(data["processors"])
       THEN /\ Raise(TypeError)
            /\ UNCHANGED checklist
       ELSE /\ checklist' =
                   create_checklist(data, validation_warnings, security_findings,
                                    performance_analysis)
            /\ pc' = "save_contract"
            /\ UNCHANGED <<connection_graph, warnings, error, raised_in>>
    /\ UNCHANGED <<batch_vars, opened, data, validation_warnings,
                   security_findings, performance_analysis,
                   expression_inventory, data_contract>>

\* json.dump(data_contract, ...) into <base>_analysis/data_contract.json
SaveContract ==
    /\ pc = "save_contract"
    /\ outputs' = outputs \cup
           {Artifact(file_index, OutputDir(input_files[file_index].name),
                     "data_contract.json")}
    /\ pc' = "save_checklist"
    /\ UNCHANGED <<input_files, file_index, success_count, failure_count,
                   opened, data, connection_graph, warnings,
                   validation_warnings, analysis_vars, error, raised_in>>

\* json.dump(checklist, ...) into <base>_analysis/migration_checklist.json
SaveChecklist ==
    /\ pc = "save_checklist"
    /\ outputs' = outputs \cup
           {Artifact(file_index, OutputDir(input_files[file_index].name),
                     "migration_checklist.json")}
    /\ pc' = "complete"
    /\ UNCHANGED <<input_files, file_index, success_count, failure_count,
                   opened, data, connection_graph, warnings,
                   validation_warnings, analysis_vars, error, raised_in>>

\* back in the batch loop: the call returned (success_count += 1) or an
\* Exception was caught (failure_count += 1)
FileDone ==
    /\ pc \in {"complete", "failed"}
    /\ IF pc = "failed"
       THEN failure_count' = failure_count + 1 /\ UNCHANGED success_count
       ELSE success_count' = success_count + 1 /\ UNCHANGED failure_count
    /\ file_index' = file_index + 1
    /\ pc' = "next_file"
    /\ UNCHANGED <<input_files, outputs, opened, data, connection_graph, warnings,
                   validation_warnings, analysis_vars, error, raised_in>>

Next ==
    \/ NextFile
    \/ DetectFormat
    \/ ParseJson
    \/ ParseXml
    \/ ValidateSchema
    \/ ValidateConnections
    \/ DetectCycles
    \/ ValidateProcessors
    \/ ValidateParameters
    \/ ValidateIntegrity
    \/ SecurityAudit
    \/ AnalyzePerformance
    \/ AnalyzeExpressions
    \/ CreateDataContract
    \/ CreateChecklist
    \/ SaveContract
    \/ SaveChecklist
    \/ FileDone

Spec == Init /\ [][Next]_vars

----------------------------------------------------------------------------
(* Properties. The graph of a flow is read off its connection records,     *)
(* independently of the adjacency map the validator builds.                *)

ConnEdges(d) ==
    {<<Get(c, "sourceId", PyNone), Get(c, "destinationId", PyNone)>> :
        c \in Range(d["connections"])}

Successors(E, S) == {e[2] : e \in {x \in E : x[1] \in S}}

RECURSIVE ReachN(_, _, _)
ReachN(E, S, k) ==
    IF k = 0 THEN S ELSE ReachN(E, S \cup Successors(E, S), k - 1)

\* the nodes reached from n by a path of at least one edge
ReachPlus(E, n) == ReachN(E, Successors(E, {n}), Cardinality(E))

OnCycle(E, n) == n \in ReachPlus(E, n)

HasCycle(E) == \E e \in E : OnCycle(E, e[1])

Sym(E) == E \cup {<<e[2], e[1]>> : e \in E}

\* the connected component of n in the undirected graph
WeakComponent(E, n) == {n} \cup ReachPlus(Sym(E), n)

\* the connections are exactly the edges of one simple directed cycle
IsSimpleCycle(E, nConns) ==
    LET N == {e[1] : e \in E}
    IN  /\ nConns >= 1
        /\ Cardinality(E) = nConns
        /\ Cardinality(N) = nConns
        /\ {e[2] : e \in E} = N
        /\ \A n \in N : ReachPlus(E, n) = N

\* c is a closed path of E: first node repeated at the end, every step an edge
IsClosedPath(E, c) ==
    /\ Len(c) >= 2
    /\ c[1] = c[Len(c)]
    /\ \A i \in 1..(Len(c) - 1) : <<c[i], c[i + 1]>> \in E

OfType(ws, t) == SelectSeq(ws, LAMBDA w : w.type = t)

\* the state in which _validate_logical_semantics has returned `warnings`
\* the steps of one run of ingestion_agent_run, in the order of the code
STEPS ==
    <<"detect_format", "parse_json", "parse_xml", "validate_schema",
      "validate_connections", "detect_cycles", "validate_processors",
      "validate_parameters", "validate_integrity", "validated",
      "analyze_performance", "analyze_expressions", "create_data_contract",
      "create_checklist", "save_contract", "save_checklist", "complete">>

StepPositions ==
    [step \in Range(STEPS) |-> CHOOSE i \in DOMAIN STEPS : STEPS[i] = step]

Pos(step) == StepPositions[step]

\* the run has executed the step: it is at a later one, or the step raised
\* or a later one did
Done(step) ==
    IF pc = "failed"
    THEN Pos(raised_in) >= Pos(step)
    ELSE pc \in DOMAIN StepPositions /\ Pos(pc) > Pos(step)

SemanticsReturned == pc = "validate_integrity"

\* C1: a flow whose connections are exactly one simple directed cycle gets
\* exactly one circular_dependency warning, of severity HIGH, whose cycle is
\* that cycle as a closed path: every node of it once, the first repeated at
\* the end, every step a connection.
C1_OneCycleOneWarning ==
    (SemanticsReturned /\ IsSimpleCycle(ConnEdges(data), Len(data["connections"])))
    => LET cw == OfType(warnings, "circular_dependency")
           E == ConnEdges(data)
       IN  /\ Len(cw) = 1
           /\ cw[1].severity = "HIGH"
           /\ Len(cw[1].cycle) = Cardinality(E) + 1
           /\ IsClosedPath(E, cw[1].cycle)
           /\ Range(cw[1].cycle) = {e[1] : e \in E}

C1_Witness ==
    /\ SemanticsReturned
    /\ IsSimpleCycle(ConnEdges(data), Len(data["connections"]))
    /\ Len(data["connections"]) = 3
    /\ Len(OfType(warnings, "circular_dependency")) = 1

\* C2: a flow whose connection graph is acyclic gets no circular_dependency
\* warning.
C2_AcyclicNoWarning ==
    (SemanticsReturned /\ ~HasCycle(ConnEdges(data)))
    => OfType(warnings, "circular_dependency") = << >>

\* a DAG in which one node is reached along two different paths
C2_Witness ==
    /\ SemanticsReturned
    /\ ~HasCycle(ConnEdges(data))
    /\ {<<"a", "b">>, <<"a", "c">>, <<"b", "c">>} = ConnEdges(data)
    /\ OfType(warnings, "circular_dependency") = << >>

\* C3: every cycle reported is a closed path of the connection graph.
C3_CyclesAreClosedPaths ==
    SemanticsReturned
    => \A i \in DOMAIN warnings :
           warnings[i].type = "circular_dependency"
           => IsClosedPath(ConnEdges(data), warnings[i].cycle)

\* C4: every connected component of the connection graph that contains a
\* cycle has a circular_dependency warning whose closing node lies in it.
C4_EveryCyclicComponentReported ==
    SemanticsReturned
    => \A e \in ConnEdges(data) :
           OnCycle(ConnEdges(data), e[1])
           => \E i \in DOMAIN warnings :
                  /\ warnings[i].type = "circular_dependency"
                  /\ warnings[i].cycle[1] \in WeakComponent(ConnEdges(data), e[1])

\* two disconnected components, each with a cycle, both reported
C4_Witness ==
    /\ SemanticsReturned
    /\ \E m, n \in NodeIds :
           /\ OnCycle(ConnEdges(data), m)
           /\ OnCycle(ConnEdges(data), n)
           /\ n \notin WeakComponent(ConnEdges(data), m)
    /\ Len(OfType(warnings, "circular_dependency")) >= 2

----------------------------------------------------------------------------
(* Connection endpoints *)

IdsOf(comp_list) == {Get(c, "id", PyNone) : c \in Range(comp_list)} \ {PyNone}

\* the valid-ID set as the specification lists it
ListedValidIds(d) ==
    IdsOf(d["processors"])
    \cup IdsOf(d["process_groups"])
    \cup {id \o "-input-port" : id \in IdsOf(d["process_groups"])}
    \cup {id \o "-output-port" : id \in IdsOf(d["process_groups"])}
    \cup UNION {IdsOf(d[k]) : k \in {"controller_services", "input_ports",
                    "output_ports", "funnels", "remote_process_groups"}}

BadEndpoint(d, x) == x = PyNone \/ x = "" \/ x \notin ListedValidIds(d)

BadConnection(d, c) ==
    \/ BadEndpoint(d, Get(c, "sourceId", PyNone))
    \/ BadEndpoint(d, Get(c, "destinationId", PyNone))

HasBadConnection(d) ==
    \E i \in DOMAIN d["connections"] : BadConnection(d, d["connections"][i])

FirstBadConnection(d) ==
    LET conns == d["connections"]
    IN  conns[CHOOSE i \in DOMAIN conns :
                  /\ BadConnection(d, conns[i])
                  /\ \A j \in 1..(i - 1) : ~BadConnection(d, conns[j])]

\* the error the specification asks for: the connection's ID and name, and
\* the endpoint at fault, the source first
ConnectionError(d, c) ==
    LET id == Get(c, "id", "unknown")
        name == Get(c, "name", "Connection " \o id)
        src == Get(c, "sourceId", PyNone)
        dst == Get(c, "destinationId", PyNone)
    IN  IF BadEndpoint(d, src)
        THEN FlowValidationError(
                 "Connection '" \o name \o "' has invalid source: " \o Str(src),
                 id, name)
        ELSE FlowValidationError(
                 "Connection '" \o name \o "' has invalid destination: " \o Str(dst),
                 id, name)

ConnectionsChecked == Done("validate_connections")

RaisedIn(step) == pc = "failed" /\ raised_in = step

\* C5: semantic validation fails on a connection exactly when some
\* connection has an empty, missing or unlisted source or destination ID;
\* the error carries the ID and name of the first such connection and names
\* its source when the source is at fault, else its destination.
C5_BadEndpointIffConnectionError ==
    ConnectionsChecked
    => /\ HasBadConnection(data) <=> RaisedIn("validate_connections")
       /\ HasBadConnection(data)
          => error = ConnectionError(data, FirstBadConnection(data))

\* a first connection from a group's synthetic port is accepted, the second
\* connection is the one reported
C5_Witness ==
    /\ RaisedIn("validate_connections")
    /\ Len(data["connections"]) = 2
    /\ Get(data["connections"][1], "sourceId", PyNone) = "g-input-port"
    /\ Get(data["connections"][1], "destinationId", PyNone) = "r"
    /\ error.component_id = "k2"

----------------------------------------------------------------------------
(* Component IDs *)

IdSeq(comp_list) == [i \in DOMAIN comp_list |-> Get(comp_list[i], "id", PyNone)]

\* two components of the list share a (non-empty) ID string
SharedId(ids) ==
    \E i, j \in DOMAIN ids : i < j /\ ids[i] = ids[j] /\ Truthy(ids[i])

DuplicateError(id, comp_type, first_type) ==
    FlowValidationError(
        "Duplicate UUID: " \o id \o " in " \o comp_type \o " and " \o first_type,
        id, PyNone)

\* the duplicate-ID error for an ID two processors share
IsProcessorDuplicateError(d, e) ==
    \E i, j \in DOMAIN d["processors"] :
        /\ i < j
        /\ IdSeq(d["processors"])[i] = IdSeq(d["processors"])[j]
        /\ Truthy(IdSeq(d["processors"])[i])
        /\ e = DuplicateError(IdSeq(d["processors"])[i], "processors", "processors")

RunOver == Done("validate_integrity") \/ (pc = "failed" /\ Done("validate_schema"))

\* C6 as stated: whenever two processors share an ID, validation ends in
\* the duplicate-ID integrity error.
C6_DuplicateAlwaysIntegrityError ==
    (RunOver /\ SharedId(IdSeq(data["processors"])))
    => pc = "failed" /\ IsProcessorDuplicateError(data, error)

\* C6 amended: whenever two processors share an ID, validation ends in a
\* fatal error; when the error comes from the integrity tier and every
\* processor has a non-empty ID, it is the duplicate-ID error, carrying an
\* ID two processors share and naming the collection of both.
C6_DuplicateIsFatal ==
    (RunOver /\ SharedId(IdSeq(data["processors"])))
    => /\ pc = "failed"
       /\ (/\ raised_in = "validate_integrity"
           /\ \A i \in DOMAIN data["processors"] :
                  Truthy(IdSeq(data["processors"])[i]))
          => IsProcessorDuplicateError(data, error)

C6_Witness ==
    /\ RaisedIn("validate_integrity")
    /\ SharedId(IdSeq(data["processors"]))
    /\ error = DuplicateError("a", "processors", "processors")

ALL_COLLECTIONS == <<"processors", "connections", "controller_services",
                     "process_groups", "input_ports", "output_ports",
                     "funnels", "labels", "remote_process_groups">>

RECURSIVE AllIds(_, _)
AllIds(d, k) ==
    IF k > Len(ALL_COLLECTIONS) THEN << >>
    ELSE IdSeq(d[ALL_COLLECTIONS[k]]) \o AllIds(d, k + 1)

\* C7: when _validate_all returns, every component of every collection has
\* a non-empty ID and no two components share one.
C7_ValidatedIdsUnique ==
    pc = "validated"
    => LET ids == AllIds(data, 1)
       IN  /\ \A i \in DOMAIN ids : Truthy(ids[i])
           /\ \A i, j \in DOMAIN ids : i # j => ids[i] # ids[j]

----------------------------------------------------------------------------
(* Processors *)

Component(proc) == Get(proc, "component", EmptyDict)

\* the value of property k after the merge: the nested-config value when
\* the nested map has the key, else the direct one; CNone when absent or null
MergedProperty(component, k) ==
    LET direct == Get(component, "properties", << >>)
        nested == Get(Get(component, "config", EmptyDict), "properties", << >>)
    IN  IF k \in ItemKeys(nested) THEN ItemGet(nested, k, CNone)
        ELSE ItemGet(direct, k, CNone)

\* empty, blank or absent
IsBlank(v) == v = CNone \/ Strip(v) = << >>

LacksScript(proc) ==
    /\ ContainsAny(Get(Component(proc), "type", T_Unknown), SCRIPT_TYPES)
    /\ IsBlank(MergedProperty(Component(proc), SCRIPT_BODY))
    /\ IsBlank(MergedProperty(Component(proc), SCRIPT_FILE))

FirstLackingScript(d) ==
    LET procs == d["processors"]
    IN  procs[CHOOSE i \in DOMAIN procs :
                  /\ LacksScript(procs[i])
                  /\ \A j \in 1..(i - 1) : ~LacksScript(procs[j])]

ScriptError(proc) ==
    LET name == Get(Component(proc), "name", "Unnamed")
    IN  FlowValidationError("Script processor '" \o name \o "' has no script",
                            Get(proc, "id", PyNone), name)

ProcessorsChecked == Done("validate_processors")

\* C8: the processor check fails exactly when some script processor has
\* both its merged 'Script Body' and 'Script File' empty, blank or absent,
\* with the error carrying the ID and name of the first such processor; a
\* script processor with either one non-blank is accepted.
C8_NoScriptIffScriptError ==
    ProcessorsChecked
    => /\ (\E i \in DOMAIN data["processors"] : LacksScript(data["processors"][i]))
          <=> RaisedIn("validate_processors")
       /\ (\E i \in DOMAIN data["processors"] : LacksScript(data["processors"][i]))
          => error = ScriptError(FirstLackingScript(data))

\* the connections of which the processor's ID is the source
Outbound(d, proc_id) ==
    {c \in Range(d["connections"]) : Get(c, "sourceId", PyNone) = proc_id}

\* a dead end as the specification describes it
DeclaredDeadEnd(d, proc) ==
    /\ Len(Get(Component(proc), "relationships", << >>)) >= 1
    /\ Outbound(d, Get(proc, "id", PyNone)) = {}
    /\ \A i \in DOMAIN TERMINAL_TYPES :
           ~Contains(Get(Component(proc), "type", T_Unknown), TERMINAL_TYPES[i])

\* C10: the dead_end_processor warnings returned are, in processor order,
\* one MEDIUM warning for each processor that declares a relationship, is
\* the source of no connection and has no terminal-sink marker in its type,
\* and none for any other processor.
C10_DeadEndIffDeclared ==
    SemanticsReturned
    => LET got == OfType(warnings, "dead_end_processor")
           want == SelectSeq(data["processors"],
                             LAMBDA p : DeclaredDeadEnd(data, p))
       IN  /\ Len(got) = Len(want)
           /\ \A i \in DOMAIN got :
                  /\ got[i].severity = "MEDIUM"
                  /\ got[i].processor_id = Get(want[i], "id", PyNone)
                  /\ got[i].processor = Get(Component(want[i]), "name", "Unnamed")

\* one unconnected non-terminal processor with a relationship is flagged,
\* another without relationships is not
C10_Witness ==
    /\ SemanticsReturned
    /\ Len(data["processors"]) = 2
    /\ Len(data["connections"]) = 0
    /\ Len(OfType(warnings, "dead_end_processor")) = 1
    /\ Component(data["processors"][2])["type"] = T_GetFile
    /\ Component(data["processors"][2])["relationships"] = << >>

----------------------------------------------------------------------------
(* Parameter references *)

\* the reference is a function of the catalog (the name before any "(")
IsCatalogFunction(name) ==
    \E i \in DOMAIN NIFI_SYSTEM_FUNCTIONS :
        SplitFirst(name, "(") = NIFI_SYSTEM_FUNCTIONS[i]

HasSystemPrefix(name) ==
    \E i \in DOMAIN NIFI_SYSTEM_PROPERTIES :
        StartsWith(name, NIFI_SYSTEM_PROPERTIES[i])

\* the names some parameter context declares
Declared(d) ==
    {n \in UNION {{Get(p, "name", CNone),
                   Get(Get(p, "parameter", EmptyDict), "name", CNone)} :
                     p \in UNION {Range(Get(ctx, "parameters", << >>)) :
                                     ctx \in Range(d["parameter_contexts"])}} :
        n # CNone /\ n # << >>}

IsUndefined(d, name) ==
    ~IsCatalogFunction(name) /\ ~HasSystemPrefix(name) /\ name \notin Declared(d)

\* <<processor, property, name>> for every fragment of the value whose
\* reference name is undefined
UndefinedInValue(d, proc_name, prop_name, value) ==
    LET frags == IF value = CNone THEN << >> ELSE FindAll(value, 1)
        names == [i \in DOMAIN frags |-> Strip(SplitFirst(frags[i], ":"))]
        undefined == SelectSeq(names, LAMBDA n : IsUndefined(d, n))
    IN  [i \in DOMAIN undefined |-> <<proc_name, prop_name, undefined[i]>>]

UndefinedInProcessor(d, proc) ==
    LET items == AllProps(Component(proc))
        name == Get(Component(proc), "name", "Unnamed")
    IN  Flatten([i \in DOMAIN items |->
                    UndefinedInValue(d, name, items[i][1], items[i][2])])

UndefinedInFlow(d) ==
    Flatten([i \in DOMAIN d["processors"] |->
                UndefinedInProcessor(d, d["processors"][i])])

\* C9: the undefined_parameter warnings returned are one MEDIUM warning,
\* naming processor, property and reference name, for each fragment whose
\* reference name is no catalog function, has no system-property prefix and
\* is declared in no parameter context, and none for any other fragment.
C9_UndefinedIffNotSystemNorDeclared ==
    SemanticsReturned
    => LET got == OfType(warnings, "undefined_parameter")
           want == UndefinedInFlow(data)
       IN  /\ Len(got) = Len(want)
           /\ \A i \in DOMAIN got :
                  /\ got[i].severity = "MEDIUM"
                  /\ <<got[i].processor, got[i].property, got[i].parameter>> = want[i]

----------------------------------------------------------------------------
(* Security audit *)

SecurityAudited == Done("validated")

\* every literal the sensitive patterns match, in lower case
SensitiveKeywords ==
    UNION {Literals(SENSITIVE_PATTERNS[k]) : k \in DOMAIN SENSITIVE_PATTERNS}

\* the name holds a sensitive keyword as a whole word, in any case
NamesKeyword(prop_name) ==
    \E i, j \in DOMAIN prop_name :
        /\ i <= j
        /\ Lower(SubSeq(prop_name, i, j)) \in SensitiveKeywords
        /\ (i = 1 \/ ~IsWordChar(prop_name[i - 1]))
        /\ (j = Len(prop_name) \/ ~IsWordChar(prop_name[j + 1]))

\* the findings of one type about one property of one component
FindingsAbout(type, id_key, id, prop_name) ==
    SelectSeq(security_findings,
              LAMBDA f : /\ f.type = type
                         /\ f[id_key] = id
                         /\ f.property = prop_name)

\* how many credential findings the property is to have
CredentialsExpected(prop_name, prop_value) ==
    IF /\ IsStr(prop_value)
       /\ NamesKeyword(prop_name)
       /\ prop_value # << >>
       /\ ~Contains(prop_value, DOLLAR_BRACE)
    THEN 1 ELSE 0

\* C11: once the audit has run, every property of a processor (its two
\* property maps merged) and of a controller service has exactly one HIGH
\* hardcoded-credential finding when its value is a non-empty string without
\* "${" and its name holds a sensitive keyword as a whole word in any case,
\* and none otherwise.
C11_CredentialFindingIffHardcoded ==
    SecurityAudited =>
        /\ \A i \in DOMAIN data["processors"] :
               LET proc == data["processors"][i]
                   all_props == AllProps(Get(proc, "component", EmptyDict))
               IN  \A j \in DOMAIN all_props :
                       Len(FindingsAbout("hardcoded_credential", "processor_id",
                                         Get(proc, "id", PyNone), all_props[j][1]))
                           = CredentialsExpected(all_props[j][1], all_props[j][2])
        /\ \A i \in DOMAIN data["controller_services"] :
               LET cs == data["controller_services"][i]
                   properties == Get(Get(cs, "component", EmptyDict),
                                     "properties", << >>)
               IN  \A j \in DOMAIN properties :
                       Len(FindingsAbout("hardcoded_credential_service",
                                         "controller_service_id",
                                         Get(cs, "id", PyNone), properties[j][1]))
                           = CredentialsExpected(properties[j][1], properties[j][2])
        /\ \A k \in DOMAIN security_findings :
               security_findings[k].type
                       \in {"hardcoded_credential", "hardcoded_credential_service"}
                   => security_findings[k].severity = "HIGH"

\* a processor's Password is the literal hunter2 and has its one finding,
\* while the controller service's Password is ${secret_param} and has none
C11_Witness ==
    /\ SecurityAudited
    /\ \E i \in DOMAIN data["processors"] :
           /\ <<N_Password, V_hunter2>>
                  \in Range(AllProps(data["processors"][i]["component"]))
           /\ Len(FindingsAbout("hardcoded_credential", "processor_id",
                                data["processors"][i]["id"], N_Password)) = 1
    /\ \E i \in DOMAIN data["controller_services"] :
           /\ <<N_Password, V_secret_param>>
                  \in Range(data["controller_services"][i]["component"]["properties"])
           /\ FindingsAbout("hardcoded_credential_service", "controller_service_id",
                            data["controller_services"][i]["id"], N_Password) = << >>

\* the insecure schemes the value holds, in any case
SchemesIn(prop_value) ==
    {k \in DOMAIN INSECURE_PROTOCOLS :
        IsStr(prop_value) /\ Contains(Lower(prop_value), INSECURE_PROTOCOLS[k])}

\* the MEDIUM insecure-protocol findings about a property that name scheme k
ProtocolFindingsAbout(id, prop_name, k) ==
    {n \in DOMAIN security_findings :
        LET f == security_findings[n]
        IN  /\ f.type = "insecure_protocol"
            /\ f.severity = "MEDIUM"
            /\ f.property = prop_name
            /\ Get(f, "processor_id", Get(f, "controller_service_id", PyNone)) = id
            /\ f.protocol = RStripChars(INSECURE_PROTOCOLS[k], {":", "/"})}

\* C12: once the audit has run, every string property of a processor and
\* of a controller service whose value holds http://, ftp://, telnet:// or
\* ldap:// in any case has a MEDIUM insecure-protocol finding naming that
\* scheme.
C12_InsecureSchemeAlwaysFound ==
    SecurityAudited =>
        /\ \A i \in DOMAIN data["processors"] :
               LET proc == data["processors"][i]
                   all_props == AllProps(Get(proc, "component", EmptyDict))
               IN  \A j \in DOMAIN all_props :
                       \A k \in SchemesIn(all_props[j][2]) :
                           ProtocolFindingsAbout(Get(proc, "id", PyNone),
                                                 all_props[j][1], k) # {}
        /\ \A i \in DOMAIN data["controller_services"] :
               LET cs == data["controller_services"][i]
                   properties == Get(Get(cs, "component", EmptyDict),
                                     "properties", << >>)
               IN  \A j \in DOMAIN properties :
                       \A k \in SchemesIn(properties[j][2]) :
                           ProtocolFindingsAbout(Get(cs, "id", PyNone),
                                                 properties[j][1], k) # {}

----------------------------------------------------------------------------
(* Expression inventory *)

ExpressionsAnalyzed == Done("analyze_expressions")

BUCKETS ==
    {"flow_file_attributes", "system_functions", "environment_variables",
     "parameter_references", "unknown_expressions"}

\* the names of the function catalog
CatalogNames ==
    {SplitFirst(NIFI_SYSTEM_FUNCTIONS[k], "(") : k \in DOMAIN NIFI_SYSTEM_FUNCTIONS}

\* the bucket of a fragment, by first match in the stated order
BucketOf(expression) ==
    IF StartsWith(expression, ENV_PREFIX) THEN "environment_variables"
    ELSE IF SplitFirst(expression, "(") \in CatalogNames THEN "system_functions"
    ELSE IF HasSystemPrefix(expression) THEN "system_functions"
    ELSE IF ":" \in Range(expression) THEN "flow_file_attributes"
    ELSE IF expression \in COMMON_ATTRS \/ "." \in Range(expression)
    THEN "flow_file_attributes"
    ELSE "unknown_expressions"

RECURSIVE SumOver(_, _)
SumOver(f, keys) ==
    IF keys = {} THEN 0
    ELSE LET k == CHOOSE x \in keys : TRUE IN f[k] + SumOver(f, keys \ {k})

\* the number of usage records filed in a bucket
RecordsIn(bucket) ==
    SumOver([key \in DOMAIN expression_inventory[bucket] |->
                Len(expression_inventory[bucket][key])],
            DOMAIN expression_inventory[bucket])

\* the number of fragment occurrences whose bucket it is
FragmentsOf(bucket) ==
    Len(SelectSeq(ExpressionMatches(data["processors"]),
                  LAMBDA m : BucketOf(m.expression) = bucket))

\* C13 (second part): the usage records of all buckets together are as many
\* as summary.total_expressions
RecordsSumToTotal ==
    ExpressionsAnalyzed =>
        SumOver([b \in BUCKETS |-> RecordsIn(b)], BUCKETS)
            = expression_inventory.summary.total_expressions

\* C13: once the inventory is built, every ${...} fragment occurrence is
\* filed in the one bucket that the first matching rule gives it
\* (environment variable, catalog function by its pre-"(" prefix, system
\* property, attribute with default, known attribute, unknown), so each
\* bucket holds as many usage records as fragments of that bucket and the
\* records of all buckets sum to summary.total_expressions.
C13_EachFragmentInItsBucket ==
    ExpressionsAnalyzed =>
        /\ \A b \in BUCKETS : RecordsIn(b) = FragmentsOf(b)
        /\ SumOver([b \in BUCKETS |-> RecordsIn(b)], BUCKETS)
               = expression_inventory.summary.total_expressions

----------------------------------------------------------------------------
(* Migration readiness *)

ContractCreated == Done("create_data_contract")

\* how many of the items have the severity
NumberOf(items, severity) ==
    Cardinality({k \in DOMAIN items : items[k].severity = severity})

\* C14: once the data contract is created, statistics.migration_readiness
\* is max(0, 100 - 10 per HIGH and 5 per MEDIUM validation warning - 15
\* per HIGH and 8 per MEDIUM security finding), an integer in 0..100 to
\* which LOW items contribute nothing, and it is 0 when there are 7 or
\* more HIGH security findings.
C14_ReadinessIsClampedPenaltySum ==
    ContractCreated =>
        LET readiness == data_contract.statistics.migration_readiness
            penalties == 10 * NumberOf(validation_warnings, "HIGH")
                         + 5 * NumberOf(validation_warnings, "MEDIUM")
                         + 15 * NumberOf(security_findings, "HIGH")
                         + 8 * NumberOf(security_findings, "MEDIUM")
        IN  /\ readiness = (IF penalties >= 100 THEN 0 ELSE 100 - penalties)
            /\ readiness \in 0..100
            /\ NumberOf(security_findings, "HIGH") >= 7 => readiness = 0

\* seven HIGH security findings and a LOW warning: the penalties exceed
\* 100 and the readiness is 0
C14_Witness ==
    /\ ContractCreated
    /\ NumberOf(security_findings, "HIGH") >= 7
    /\ NumberOf(validation_warnings, "LOW") > 0
    /\ NumberOf(validation_warnings, "HIGH") > 0
    /\ data_contract.statistics.migration_readiness = 0

----------------------------------------------------------------------------
(* Complexity score *)

PerformanceAnalyzed == Done("analyze_performance")

\* the largest _hierarchy_depth among the processors, 0 when there is none
DeepestProcessor ==
    LET depths == {data["processors"][i]["_hierarchy_depth"] :
                      i \in DOMAIN data["processors"]} \cup {0}
    IN  CHOOSE m \in depths : \A n \in depths : n <= m

\* C15: once the performance analysis has run, the complexity score is an
\* integer in 0..100 made of a processor term of at most 30, a connection
\* term of at most 20, a group term min(2 per group, 20) and a depth term
\* min(5 per level, 30); it is 0 for a flow without processors,
\* connections and groups.
C15_ComplexityWithinCaps ==
    PerformanceAnalyzed =>
        LET score == performance_analysis.flow_complexity.complexity_score
            P == Len(data["processors"])
            C == Len(data["connections"])
            G == Len(data["process_groups"])
            D == DeepestProcessor
            fixed == (IF 2 * G < 20 THEN 2 * G ELSE 20)
                     + (IF 5 * D < 30 THEN 5 * D ELSE 30)
        IN  /\ score \in 0..100
            /\ score >= fixed + (IF P > 0 THEN 6 ELSE 0) + (IF C > 0 THEN 4 ELSE 0)
            /\ score <= fixed + (IF P > 0 THEN 30 ELSE 0) + (IF C > 0 THEN 20 ELSE 0)
            /\ (P = 0 /\ C = 0 /\ G = 0 /\ D = 0) => score = 0

\* every term at its cap: 20 processors, 17 connections, 10 groups and
\* depth 6 or more give the score 100
C15_Witness ==
    /\ PerformanceAnalyzed
    /\ Len(data["processors"]) >= 20
    /\ Len(data["connections"]) >= 17
    /\ Len(data["process_groups"]) > 10
    /\ DeepestProcessor > 6
    /\ performance_analysis.flow_complexity.complexity_score = 100

----------------------------------------------------------------------------
(* Backpressure *)

\* the connection states both thresholds
StatesThresholds(conn) ==
    {"backPressureObjectThreshold", "backPressureDataSizeThreshold"} \subseteq DOMAIN conn

\* the object-count threshold is zero, as a number or as the text of one
ObjectThresholdIsZero(conn) ==
    conn["backPressureObjectThreshold"] \in {PyInt(0), PyStr("0")}

SizeThresholdIsSentinel(conn) ==
    conn["backPressureDataSizeThreshold"] = PyStr("0 MB")

\* the connections the analysis is to flag, in the order of the flow
ConnectionsAtRisk ==
    SelectSeq(data["connections"],
              LAMBDA conn : ObjectThresholdIsZero(conn) \/ SizeThresholdIsSentinel(conn))

\* C16: once the performance analysis has run on a flow loaded from either
\* encoding whose connections state their thresholds, backpressure_risks
\* lists, once each and in order, exactly the connections whose
\* object-count threshold is zero or whose data-size threshold is the
\* string "0 MB".
C16_RiskIffZeroThreshold ==
    (PerformanceAnalyzed /\ \A i \in DOMAIN data["connections"] :
                                StatesThresholds(data["connections"][i]))
    => [i \in DOMAIN performance_analysis.backpressure_risks |->
           performance_analysis.backpressure_risks[i].connection_id]
       = [i \in DOMAIN ConnectionsAtRisk |-> ConnectionsAtRisk[i]["id"]]

\* C16 for the JSON encoding alone
RiskIffZeroThresholdInJson ==
    Lower(SplitExt(input_files[1].name)) = EXT_JSON => C16_RiskIffZeroThreshold

----------------------------------------------------------------------------
(* The two encodings *)

COLLECTIONS ==
    {"processors", "connections", "controller_services", "process_groups",
     "input_ports", "output_ports", "funnels", "labels", "remote_process_groups"}

\* ID, ParentGroupID and HierarchyDepth of the components of a collection
Placement(flow, collection) ==
    [i \in DOMAIN flow[collection] |->
        <<Get(flow[collection][i], "id", PyNone),
          Get(flow[collection][i], "_parent_group_id", PyNone),
          Get(flow[collection][i], "_hierarchy_depth", PyNone)>>]

\* the IDs of the components of a collection
LoadedIds(flow, collection) ==
    [i \in DOMAIN flow[collection] |-> Get(flow[collection][i], "id", PyNone)]

JustLoaded == pc = "validate_schema"

\* C20: when a logical flow has just been loaded from its JSON document,
\* the flat collections hold the same components, with the same IDs, parent
\* group IDs and hierarchy depths, as the load of its XML template yields.
C20_BothEncodingsSameModel ==
    JustLoaded =>
        \A groups \in LogicalFlows :
            input_files[file_index].content = EncodeJson(groups)
            => \A collection \in COLLECTIONS :
                   Placement(data, collection)
                       = Placement(parse_template(EncodeXml(groups).root), collection)

\* C20 for the IDs alone: both loads yield the same components in the same
\* collections
BothEncodingsSameIds ==
    JustLoaded =>
        \A groups \in LogicalFlows :
            input_files[file_index].content = EncodeJson(groups)
            => \A collection \in COLLECTIONS :
                   LoadedIds(data, collection)
                       = LoadedIds(parse_template(EncodeXml(groups).root), collection)

----------------------------------------------------------------------------
(* The run as a whole *)

\* s.endswith(p) on character strings
EndsWith(s, p) == Len(p) <= Len(s) /\ SubSeq(s, Len(s) - Len(p) + 1, Len(s)) = p

\* a file is being processed: ingestion_agent_run has been entered
Processing == pc \in Range(STEPS) \cup {"failed"}

\* the artifacts written while the k-th input file was processed
WrittenBy(k) == {a.name : a \in {b \in outputs : b.written_by = k}}

\* the stages whose results the artifacts are made of have all returned
AllStagesCompleted ==
    /\ error = NoError
    /\ Pos(pc) > Pos("create_checklist")
    /\ performance_analysis # EmptyDict
    /\ expression_inventory # EmptyDict
    /\ data_contract # EmptyDict
    /\ checklist # EmptyDict

\* C17: a file whose run has raised has no artifact written, neither
\* data_contract.json nor migration_checklist.json; while a file is being
\* processed, an artifact of it exists only if parsing, validation, the
\* security audit, the performance analysis and the expression inventory
\* have completed without error, and the checklist only after the contract.
C17_NoArtifactsUnlessAllStagesCompleted ==
    Processing =>
        /\ pc = "failed" => WrittenBy(file_index) = {}
        /\ WrittenBy(file_index) # {} => AllStagesCompleted
        /\ "migration_checklist.json" \in WrittenBy(file_index)
               => "data_contract.json" \in WrittenBy(file_index)

\* the second file of a batch has failed on its duplicate IDs and has no
\* artifact, the first has both
C17_Witness ==
    /\ pc = "failed"
    /\ error.kind = "FlowValidationError"
    /\ raised_in = "validate_integrity"
    /\ file_index = 2
    /\ WrittenBy(2) = {}
    /\ WrittenBy(1) = {"data_contract.json", "migration_checklist.json"}

\* C18: when the entry point stops, it has left the loop normally and
\* every input file has been counted once, as a success or as a failure;
\* no exception has escaped the loop.
C18_EveryFileCountedOnce ==
    /\ pc # "crashed"
    /\ pc = "exit" => success_count + failure_count = Len(input_files)

\* C18 for the files whose output directory can be created
CountedOnceUnlessMakedirsFails ==
    /\ pc = "next_file" => success_count + failure_count = file_index - 1
    /\ pc = "exit" => success_count + failure_count = Len(input_files)
    /\ pc = "crashed" => ~input_files[file_index].dir_creatable

\* the extension is neither .json nor .xml in any case
UnsupportedName(name) ==
    ~EndsWith(Lower(name), EXT_JSON) /\ ~EndsWith(Lower(name), EXT_XML)

\* C19: once the format of a file whose name ends neither in .json nor in
\* .xml (in any case) has been looked at, the run has failed with the
\* unsupported-format error raised by the format detection, the file has
\* not been opened, nothing has been parsed and no later stage has run.
C19_UnsupportedExtensionFailsUnopened ==
    (Processing /\ pc # "detect_format"
                /\ UnsupportedName(input_files[file_index].name))
    => /\ pc = "failed"
       /\ raised_in = "detect_format"
       /\ error.kind = "ValueError"
       /\ error.message[1] = "Unsupported file format '"
       /\ ~opened
       /\ data = NoFlow
       /\ WrittenBy(file_index) = {}

\* notes.txt holds a well-formed flow document and is rejected unread
C19_Witness ==
    /\ pc = "failed"
    /\ input_files[file_index] = File(F_notes_txt, TRUE, TRUE, SoundJson)
    /\ error.kind = "ValueError"
    /\ ~opened

----------------------------------------------------------------------------
(* ParentGroupID and HierarchyDepth *)

\* ID, containing group and nesting level of the components a forest of
\* logical groups holds in a collection: a top-level group stands directly
\* at the root (no containing group, level 0), what a group holds stands one
\* level below the group
RECURSIVE Contained(_, _, _, _)
Contained(groups, container, level, collection) ==
    UNION {
        (IF collection = "process_groups"
         THEN {<<groups[i].id, container, level>>} ELSE {})
        \cup (IF collection = "processors"
              THEN {<<groups[i].processors[j], groups[i].id, level + 1>> :
                        j \in DOMAIN groups[i].processors}
              ELSE {})
        \cup (IF collection = "connections"
              THEN {<<groups[i].connections[j].id, groups[i].id, level + 1>> :
                        j \in DOMAIN groups[i].connections}
              ELSE {})
        \cup Contained(groups[i].groups, groups[i].id, level + 1, collection) :
        i \in DOMAIN groups}

\* the logical flow the file being processed encodes
IsLoadOf(groups) ==
    input_files[file_index].content \in {EncodeJson(groups), EncodeXml(groups)}

\* C21: when a logical flow has just been loaded, from its JSON document or
\* from its XML template, every hoisted component and process group carries
\* as ParentGroupID the ID of the group that directly contains it (null
\* directly at the root) and as HierarchyDepth its nesting level, 0 at the
\* root and one more per level.
C21_StampsNameContainingGroup ==
    JustLoaded =>
        \A groups \in LogicalFlows :
            IsLoadOf(groups)
            => \A collection \in COLLECTIONS :
                   Range(Placement(data, collection))
                       = Contained(groups, PyNone, 0, collection)

\* C21 for the process groups of an XML template alone: there the parent
\* group IDs and depths of the groups are the containing ones
XmlGroupsNameContainingGroup ==
    JustLoaded =>
        \A groups \in LogicalFlows :
            input_files[file_index].content = EncodeXml(groups)
            => Range(Placement(data, "process_groups"))
                   = Contained(groups, PyNone, 0, "process_groups")

\* C21 for the depths of a JSON document alone
JsonDepthsAreNestingLevels ==
    JustLoaded =>
        \A groups \in LogicalFlows :
            input_files[file_index].content = EncodeJson(groups)
            => \A collection \in COLLECTIONS :
                   {<<p[1], p[3]>> : p \in Range(Placement(data, collection))}
                       = {<<p[1], p[3]>> : p \in Contained(groups, PyNone, 0, collection)}

----------------------------------------------------------------------------
(* The processor inventory of the checklist *)

ChecklistCreated == pc \in {"save_contract", "save_checklist", "complete"}

\* the entries of each catalog category
CatalogEntries ==
    [k \in DOMAIN NIFI_PROCESSOR_CATALOG |-> Range(NIFI_PROCESSOR_CATALOG[k].types)]

\* the positions of the catalog categories with an entry that occurs in the
\* short type name
MatchingCategories(short_type) ==
    {k \in DOMAIN CatalogEntries :
        \E t \in CatalogEntries[k] : Contains(short_type, t)}

\* the first of them in catalog order, "uncategorized" when there is none
ExpectedCategoryOfType(proc_type) ==
    LET matching == MatchingCategories(ShortType(proc_type))
    IN  IF matching = {} THEN "uncategorized"
        ELSE NIFI_PROCESSOR_CATALOG[
                 CHOOSE k \in matching : \A m \in matching : k <= m].category

\* C22: in the checklist, each category list of the processor inventory holds,
\* in processor order, the name and short type of exactly the processors whose
\* first matching catalog category (or "uncategorized") it is; no list is
\* empty and the lists together have one entry per processor.
C22_EachProcessorInFirstMatchingCategory ==
    ChecklistCreated =>
        LET procs == data["processors"]
            lists == checklist.inventory.processors
            of_type == {<<t, ExpectedCategoryOfType(t)>> :
                           t \in {TypeOf(procs[i], << >>) : i \in DOMAIN procs}}
            expected == {<<x[1], x[2][2]>> :
                            x \in {y \in (DOMAIN procs) \X of_type :
                                      y[2][1] = TypeOf(procs[y[1]], << >>)}}
        IN  /\ DOMAIN lists = {e[2] : e \in expected}
            /\ \A c \in DOMAIN lists :
                   LET placed == {e[1] : e \in {x \in expected : x[2] = c}}
                   IN  /\ Len(lists[c]) = Cardinality(placed)
                       /\ \A i \in placed :
                              lists[c][Cardinality({j \in placed : j <= i})]
                                  = CategoryEntry(procs[i])
            /\ SumOver([c \in DOMAIN lists |-> Len(lists[c])], DOMAIN lists)
                   = Len(procs)

\* a type of two categories beside a type of none: PutSQL stands under egress
\* and under database and is listed under egress alone
C22_Witness ==
    /\ ChecklistCreated
    /\ \E i, j \in DOMAIN data["processors"] :
           /\ TypeOf(data["processors"][i], << >>) = T_PutSQL
           /\ TypeOf(data["processors"][j], << >>) = T_SendEmail
    /\ DOMAIN checklist.inventory.processors = {"egress", "uncategorized"}
    /\ Cardinality(MatchingCategories(T_PutSQL)) = 2

----------------------------------------------------------------------------
(* The unmapped processors of the checklist *)

\* the short type names the inventory lists under a category
TypesUnder(category) ==
    LET lists == checklist.inventory.processors
    IN  IF category \in DOMAIN lists
        THEN {lists[category][i].type : i \in DOMAIN lists[category]}
        ELSE {}

\* C29: in the checklist, a short type name is listed in unmapped_processors
\* if and only if the processor inventory places processors of that type in
\* the "uncategorized" list.
C29_UnmappedIffUncategorized ==
    ChecklistCreated =>
        \A i \in DOMAIN data["processors"] :
            LET short_type == ShortType(TypeOf(data["processors"][i], << >>))
            IN  short_type \in checklist.unmapped_processors
                    <=> short_type \in TypesUnder("uncategorized")

\* C29 in one direction: what is uncategorized and has a name is unmapped
UncategorizedIsUnmapped ==
    ChecklistCreated =>
        TypesUnder("uncategorized") \ {<< >>} \subseteq checklist.unmapped_processors

----------------------------------------------------------------------------
(* Processors with expressions *)

\* the value holds a complete fragment: "${", then one or more characters
\* other than "}", then "}"
HasFragment(value) ==
    \E i, j \in DOMAIN value :
        /\ j > i + 2
        /\ value[i] = "$" /\ value[i + 1] = "{" /\ value[j] = "}"
        /\ \A k \in (i + 2)..(j - 1) : value[k] # "}"

\* the processors with a fragment in some string-valued property
ProcessorsWithFragments(procs) ==
    {i \in DOMAIN procs :
        \E item \in Range(AllProps(Get(procs[i], "component", EmptyDict))) :
            IsStr(item[2]) /\ HasFragment(item[2])}

\* C23: once the expressions are analysed, total_processors_with_expressions
\* is the number of processors that have at least one complete ${...}
\* fragment in a string-valued property; a processor with only an unclosed
\* "${" or an empty "${}" is not counted.
C23_CountsProcessorsWithFragments ==
    ExpressionsAnalyzed =>
        expression_inventory.summary.total_processors_with_expressions
            = Cardinality(ProcessorsWithFragments(data["processors"]))

\* C23 as an upper bound: every processor with a fragment is counted
CountsAtLeastProcessorsWithFragments ==
    ExpressionsAnalyzed =>
        expression_inventory.summary.total_processors_with_expressions
            >= Cardinality(ProcessorsWithFragments(data["processors"]))

----------------------------------------------------------------------------
(* Parallel connections and self-loops *)

CyclesDetected == pc = "validate_processors"

\* the cycles _detect_cycles has returned
ReportedCycles == [i \in DOMAIN warnings |-> warnings[i].cycle]

\* the connection list without its i-th connection
Without(conns, i) == SubSeq(conns, 1, i - 1) \o SubSeq(conns, i + 1, Len(conns))

\* what _detect_cycles returns on the graph built from a connection list
CyclesOf(conns) ==
    detect_cycles(ConnectionLoop(conns, 1, collect_all_valid_ids(data),
                                 EmptyGraph).graph)

\* two connections with the same source and the same destination
Parallel(c, d) ==
    /\ Get(c, "sourceId", PyNone) = Get(d, "sourceId", PyNone)
    /\ Get(c, "destinationId", PyNone) = Get(d, "destinationId", PyNone)

IsSelfLoop(c) == Get(c, "sourceId", PyNone) = Get(c, "destinationId", PyNone)

\* C24: when the cycles of a flow have been detected, the reported list is
\* the one the flow yields without any one of its connections that is
\* parallel to another, and every self-loop X -> X is reported as the cycle
\* [X, X].
C24_ParallelEdgesCollapseAndSelfLoopsReported ==
    CyclesDetected =>
        LET conns == data["connections"]
        IN  /\ \A i \in DOMAIN conns :
                   (\E j \in DOMAIN conns \ {i} : Parallel(conns[i], conns[j]))
                   => CyclesOf(Without(conns, i)) = ReportedCycles
            /\ \A i \in DOMAIN conns :
                   IsSelfLoop(conns[i])
                   => <<conns[i]["sourceId"], conns[i]["sourceId"]>>
                          \in Range(ReportedCycles)

\* C24 for a parallel connection listed after the one it duplicates
LaterParallelEdgeChangesNothing ==
    CyclesDetected =>
        LET conns == data["connections"]
        IN  \A i \in DOMAIN conns :
                (\E j \in 1..(i - 1) : Parallel(conns[i], conns[j]))
                => CyclesOf(Without(conns, i)) = ReportedCycles

\* C24 for a self-loop that is the first connection listed from its node
FirstListedSelfLoopIsReported ==
    CyclesDetected =>
        LET conns == data["connections"]
        IN  \A i \in DOMAIN conns :
                (/\ IsSelfLoop(conns[i])
                 /\ \A j \in 1..(i - 1) :
                        Get(conns[j], "sourceId", PyNone) # conns[i]["sourceId"])
                => <<conns[i]["sourceId"], conns[i]["sourceId"]>>
                       \in Range(ReportedCycles)

----------------------------------------------------------------------------
(* Hoisting *)

\* the key of the source document whose items a flat collection receives
SOURCE_KEY ==
    [processors |-> "processors", connections |-> "connections",
     controller_services |-> "controllerServices",
     process_groups |-> "processGroups", input_ports |-> "inputPorts",
     output_ports |-> "outputPorts", funnels |-> "funnels", labels |-> "labels",
     remote_process_groups |-> "remoteProcessGroups"]

\* the groups of a source document, each named by the positions that lead
\* to it from the root group
RECURSIVE GroupPaths(_)
GroupPaths(group) ==
    LET groups == Get(group, "processGroups", << >>)
    IN  {<< >>} \cup UNION {{<<j>> \o p : p \in GroupPaths(groups[j])} :
                               j \in DOMAIN groups}

RECURSIVE GroupAt(_, _)
GroupAt(group, path) ==
    IF path = << >> THEN group
    ELSE GroupAt(group["processGroups"][Head(path)], Tail(path))

\* the places of a source document where an item stands under the key
Occurrences(root, key) ==
    UNION {{<<p, j>> : j \in DOMAIN Get(GroupAt(root, p), key, << >>)} :
              p \in GroupPaths(root)}

SourceId(root, key, place) ==
    Get(GroupAt(root, place[1])[key][place[2]], "id", PyNone)

JsonLoaded == JustLoaded /\ input_files[file_index].content.syntax = "json"

\* C25: when a JSON document has been loaded, every flat collection holds as
\* many items as the document has under the collection's key at all nesting
\* levels together, and holds each ID as many times as the document does:
\* every nested element is hoisted exactly once and nothing else is there.
C25_EveryNestedElementHoistedOnce ==
    JsonLoaded =>
        LET root == Get(input_files[file_index].content.raw_json, "flow", EmptyDict)
        IN  \A collection \in COLLECTIONS :
                LET places == Occurrences(root, SOURCE_KEY[collection])
                    loaded == data[collection]
                IN  /\ Len(loaded) = Cardinality(places)
                    /\ \A place \in places :
                           LET id == SourceId(root, SOURCE_KEY[collection], place)
                           IN  Cardinality({i \in DOMAIN loaded :
                                               Get(loaded[i], "id", PyNone) = id})
                                   = Cardinality({q \in places :
                                         SourceId(root, SOURCE_KEY[collection], q) = id})

\* a document with components of every kind at the root and two levels down
C25_Witness ==
    /\ JsonLoaded
    /\ \A collection \in COLLECTIONS \ {"process_groups"} :
           /\ Len(data[collection]) = 2
           /\ {Get(data[collection][i], "_hierarchy_depth", PyNone) :
                  i \in DOMAIN data[collection]} = {0, 2}
    /\ Len(data["process_groups"]) = 2

----------------------------------------------------------------------------
(* The model is read-only after the load *)

\* the run is past the loader: at a later step, or a later step raised
PastLoader ==
    LET at == IF pc = "failed" THEN raised_in ELSE pc
    IN  /\ at \in Range(STEPS)
        /\ Pos(at) >= Pos("validate_schema")

\* what the loader produces from the file being processed
LoaderOutput ==
    LET content == input_files[file_index].content
    IN  IF content.syntax = "json" THEN parse_nifi_json(content.raw_json)
        ELSE parse_template(content.root)

\* the contract's components are the collections of the model
ComponentsAreTheModel ==
    LET components == data_contract.components
    IN  /\ \A k \in {"processors", "connections", "controller_services",
                     "process_groups", "parameter_contexts"} :
               components[k] = data[k]
        /\ components.ports.input = data["input_ports"]
        /\ components.ports.output = data["output_ports"]
        /\ \A k \in {"funnels", "labels", "remote_process_groups"} :
               components.other[k] = data[k]

\* C26: the model is what the loader produced when the load ends; no step of
\* the validation, audit, analysis and output stages changes it, whether the
\* step returns or raises; and the components of the data contract are the
\* collections of the model.
C26_ModelUnchangedAfterLoad ==
    /\ [](JustLoaded => data = LoaderOutput)
    /\ [][PastLoader => data' = data]_vars
    /\ [](ContractCreated => ComponentsAreTheModel)

\* a contract over a flow on which the validation warned, the audit found a
\* credential and the expression analysis filed a fragment
C26_Witness ==
    /\ ContractCreated
    /\ pc # "failed"
    /\ validation_warnings # << >>
    /\ security_findings # << >>
    /\ data_contract.components.processors = LoaderOutput["processors"]
    /\ data_contract.components.processors # << >>

\* a run that stopped in a validation tier with the model as loaded
RaisedWithModelAsLoaded ==
    /\ pc = "failed"
    /\ raised_in = "validate_processors"
    /\ data = LoaderOutput
    /\ data["processors"] # << >>

----------------------------------------------------------------------------
(* Severities *)

SEVERITIES == {"HIGH", "MEDIUM", "LOW"}

\* the groups hold every item of the list once: each item stands in the group
\* of its severity, and the groups together are as long as the list
GroupsPartition(groups, items) ==
    /\ DOMAIN groups = SEVERITIES
    /\ \A sev \in SEVERITIES :
           /\ \A i \in DOMAIN groups[sev] : groups[sev][i].severity = sev
           /\ \A x \in Range(items) :
                  x.severity = sev
                  => Cardinality({i \in DOMAIN groups[sev] : groups[sev][i] = x})
                         = Cardinality({i \in DOMAIN items : items[i] = x})
    /\ SumOver([sev \in SEVERITIES |-> Len(groups[sev])], SEVERITIES) = Len(items)

\* C27: in a generated checklist and contract, every validation warning and
\* every security finding has severity HIGH, MEDIUM or LOW; the severity
\* groups of the checklist partition the warnings and the findings; the
\* by_severity counts of the contract's summaries sum to the number of items;
\* critical_issues is the number of HIGH warnings plus HIGH findings.
C27_SeveritiesPartition ==
    ChecklistCreated =>
        /\ \A x \in Range(validation_warnings) \cup Range(security_findings) :
               "severity" \in DOMAIN x /\ x.severity \in SEVERITIES
        /\ GroupsPartition(checklist.validation.warnings, validation_warnings)
        /\ GroupsPartition(checklist.security.findings, security_findings)
        /\ SumOver(data_contract.validation.summary, SEVERITIES)
               = Len(validation_warnings)
        /\ SumOver(data_contract.security.summary, SEVERITIES)
               = Len(security_findings)
        /\ checklist.summary.critical_issues
               = NumberOf(validation_warnings, "HIGH")
                     + NumberOf(security_findings, "HIGH")

\* warnings of two severities beside findings of the other two
C27_Witness ==
    /\ ChecklistCreated
    /\ NumberOf(validation_warnings, "LOW") > 0
    /\ NumberOf(validation_warnings, "HIGH") > 0
    /\ NumberOf(security_findings, "HIGH") > 1
    /\ NumberOf(security_findings, "MEDIUM") > 0
    /\ checklist.summary.critical_issues >= 3

----------------------------------------------------------------------------
(* The order of the validation tiers *)

VALIDATION_STEPS ==
    {"validate_schema", "validate_connections", "detect_cycles",
     "validate_processors", "validate_parameters", "validate_integrity"}

\* the edges of the graph handed to _detect_cycles
GraphEdges(graph) ==
    UNION {{<<graph.keys[k], graph.adj[graph.keys[k]][j]>> :
               j \in DOMAIN graph.adj[graph.keys[k]]} : k \in DOMAIN graph.keys}

\* C28: validation runs structural, then semantic (all connections, then the
\* cycles, then the processors), then integrity, and stops at the first
\* fatal error: once the connections are checked, a flow with an invalid
\* endpoint has failed there with the connection error, whatever else is
\* wrong with it; a failure in a later step means the earlier steps found
\* nothing fatal; cycle detection sees only edges between valid IDs; and a
\* validation that failed has returned no warnings.
C28_TiersInOrderFirstFatalErrorWins ==
    /\ (ConnectionsChecked /\ HasBadConnection(data))
       => /\ RaisedIn("validate_connections")
          /\ error = ConnectionError(data, FirstBadConnection(data))
    /\ (pc = "failed" /\ raised_in \in {"validate_processors", "validate_integrity"})
       => ~HasBadConnection(data)
    /\ RaisedIn("validate_integrity")
       => \A i \in DOMAIN data["processors"] : ~LacksScript(data["processors"][i])
    /\ pc = "detect_cycles"
       => \A e \in GraphEdges(connection_graph) :
              e[1] \in ListedValidIds(data) /\ e[2] \in ListedValidIds(data)
    /\ (pc = "failed" /\ raised_in \in VALIDATION_STEPS)
       => validation_warnings = << >> /\ WrittenBy(file_index) = {}

\* two processors share an ID, a connection ends at an unknown ID after a
\* self-loop: the run failed on the connection
C28_Witness ==
    /\ RaisedIn("validate_connections")
    /\ SharedId(IdSeq(data["processors"]))
    /\ Len(data["connections"]) = 2
    /\ ~BadConnection(data, data["connections"][1])
    /\ error = ConnectionError(data, data["connections"][2])

\* a cycle warning and a disabled-processor warning were collected, then a
\* script processor without script stopped the validation
WarningsDroppedByLaterError ==
    /\ RaisedIn("validate_processors")
    /\ CyclesOf(data["connections"]) # << >>
    /\ \E i \in DOMAIN data["processors"] :
           Get(Component(data["processors"][i]), "state", "") = "DISABLED"
    /\ validation_warnings = << >>

----------------------------------------------------------------------------
(* Encrypted schemes *)

\* the value has a URI whose scheme is the protocol's: the protocol text
\* (scheme and "://") in any case, not preceded by a letter
UsesScheme(prop_value, protocol) ==
    \E i \in DOMAIN prop_value :
        /\ i + Len(protocol) - 1 <= Len(prop_value)
        /\ Lower(SubSeq(prop_value, i, i + Len(protocol) - 1)) = protocol
        /\ (i = 1 \/ LowerChar(prop_value[i - 1]) \notin Range(LOWERCASE))

\* the processor properties an insecure-protocol finding may be about
AuditedValues(f) ==
    {MergedProperty(Component(data["processors"][i]), f.property) :
        i \in {n \in DOMAIN data["processors"] :
                  Get(data["processors"][n], "id", PyNone) = f.processor_id}}

\* C30: once the audit has run, every insecure-protocol finding is about a
\* property value that uses the scheme the finding names (http, ftp, telnet
\* or ldap); a value whose only schemes are encrypted ones, sftp or https,
\* has no such finding.
C30_FindingOnlyForInsecureScheme ==
    SecurityAudited =>
        \A n \in DOMAIN security_findings :
            LET f == security_findings[n]
            IN  f.type = "insecure_protocol"
                => \E k \in DOMAIN INSECURE_PROTOCOLS :
                       /\ f.protocol = RStripChars(INSECURE_PROTOCOLS[k], {":", "/"})
                       /\ \A value \in AuditedValues(f) :
                              UsesScheme(value, INSECURE_PROTOCOLS[k])

\* C30 for https alone: a value whose only scheme is https has no finding
HttpsIsNeverFound ==
    SecurityAudited =>
        \A n \in DOMAIN security_findings :
            LET f == security_findings[n]
            IN  f.type = "insecure_protocol" => V_https \notin AuditedValues(f)

====
